---- MODULE Spec2Model ----
(***************************************************************************)
(* A model of drivers/gpu/drm/i915/gem/i915_gem_mman.c: the mmap-offset    *)
(* registry (lookup_mmo, insert_mmo, vma_node_allow_once,                  *)
(* i915_gem_mmap_offset_attach), the GTT fault handler vm_fault_gtt with   *)
(* the userfault bookkeeping and its revocation                            *)
(* (i915_gem_object_release_mmap_gtt), the CPU fault handler vm_fault_cpu  *)
(* and the pure helpers (compute_partial_view, i915_error_to_vmf_fault).   *)
(***************************************************************************)
EXTENDS Integers, Sequences, FiniteSets, TLC

\* The state of the registry (part 1).
VARIABLES
  offsets,   \* obj->mmo.offsets: the set of mmo linked in the object's rb-tree
  heap,      \* the allocated struct i915_mmap_offset: obj, mmap_type, vm_files
  nodes,     \* vma_offset_manager: the allocated nodes (mmo, start, pages)
  freed,     \* mmo of objects that are freed and wait for the drain
  at,        \* per attaching thread: pc and the locals of the call
  abug       \* a GEM_BUG_ON of the registry code has fired

avars == <<offsets, heap, nodes, freed, at, abug>>

\* The arguments and the result of compute_partial_view (part 2).
VARIABLES
  pvin,      \* the arguments: pages, tiled, row, page_offset, chunk
  pvout      \* the struct i915_ggtt_view the function returned, or NoView

pvars == <<pvin, pvout>>

\* The state of the faulting object and of the handlers (part 3).
VARIABLES
  readonly,         \* i915_gem_object_is_readonly(obj)
  resv,             \* obj->base.resv: the thread whose ww context holds the lock
  pages_pin,        \* mm.pages_pin_count of the object and of its shadow
  swapto,           \* obj->swapto: NoShadow, or the madv of the shadow object
  active_fault_handlers,  \* i915->active_fault_handlers
  invalidate_lmem_mmaps,  \* i915->invalidate_lmem_mmaps
  cpu_ptes,         \* the PTEs of the CPU mmap of the object are populated
  reset_srcu,       \* readers inside intel_gt_reset_lock .. unlock
  wakerefs,         \* runtime-pm wakerefs held
  vma,              \* per view: bound, pin count, fence pin count, userfault
  ptes,             \* the pages of FaultPages with a PTE set through the GGTT
  userfault_count,  \* obj->userfault_count
  userfault_list,   \* ggtt->userfault_list: the objects linked on it
  vm_mutex,         \* ggtt->vm.mutex: its owner
  gbug,             \* a GEM_BUG_ON of the fault or revocation code has fired
  ft,               \* per faulting thread: pc and locals of the handler
  rv,               \* the revoking thread: pc and locals
  iv                \* the thread that invalidates the lmem mmaps: its pc

gvars == <<readonly, resv, pages_pin, swapto, active_fault_handlers,
           invalidate_lmem_mmaps, cpu_ptes, reset_srcu, wakerefs, vma, ptes,
           userfault_count, userfault_list, vm_mutex, gbug, ft, rv, iv>>

\* The arguments and the result of use_swapto (the swap policy).
VARIABLES
  swin,      \* the object, the build options and the access
  swout      \* the object the fault is served from, or NoTarget

svars == <<swin, swout>>

\* The calls of i915_error_to_vmf_fault.
VARIABLES
  errno_in,  \* the err of the last call
  fault_out, \* the vm_fault_t it returned
  warned,    \* the flag of its WARN_ONCE: the warning has been printed
  warnings   \* the warnings printed so far

evars == <<errno_in, fault_out, warned, warnings>>

\* The calls of i915_gem_object_release_mmap_offset.
VARIABLES
  mapping_ptes,  \* anon_inode->i_mapping: the pages of the offset space that
                 \* some user mapping has a PTE for
  ro             \* the releasing thread: pc and locals

mvars == <<mapping_ptes, ro>>

\* The fault window of vm_fault_cpu on a segmented object.
VARIABLES
  win,       \* the area, the offset of the fault and the segments of the object
  wout       \* vm_start, vm_size, obj_offset and the segment, or NoWindow

wvars == <<win, wout>>

\* The calls of i915_gem_mmap on the offsets of one object.
VARIABLES
  refcount,  \* obj->base.refcount
  handles,   \* the handles of the object that are open: each holds a reference
  areas,     \* the vm_area_struct that map an mmo: file and mmo of each
  mp         \* the thread in i915_gem_mmap: pc and locals

xvars == <<refcount, handles, areas, mp>>

\* The anonymous file all the mmaps of the device share.
VARIABLES
  gem_mmap_singleton, \* i915->gem.mmap_singleton: NULL or a file
  anon_files,         \* the files anon_inode_getfile has created so far
  f_count,            \* file->f_count of each of them
  released,           \* the files singleton_release has returned for
  dev_refs,           \* the references of the drm device the files hold
  ms                  \* the threads in mmap_singleton: pc and file

nvars == <<gem_mmap_singleton, anon_files, f_count, released, dev_refs, ms>>

vars == <<avars, pvars, gvars, svars, evars, mvars, wvars, xvars, nvars>>

\* What a step of one part of the model leaves alone.
AOthers == <<pvars, gvars, svars, evars, mvars, wvars, xvars, nvars>>
POthers == <<avars, gvars, svars, evars, mvars, wvars, xvars, nvars>>
GOthers == <<avars, pvars, svars, evars, mvars, wvars, xvars, nvars>>
SOthers == <<avars, pvars, gvars, evars, mvars, wvars, xvars, nvars>>
EOthers == <<avars, pvars, gvars, svars, mvars, wvars, xvars, nvars>>
MOthers == <<pvars, gvars, svars, evars, wvars, xvars, nvars>>
WOthers == <<avars, pvars, gvars, svars, evars, mvars, xvars, nvars>>
XOthers == <<pvars, gvars, svars, evars, mvars, wvars, nvars>>
NOthers == <<avars, pvars, gvars, svars, evars, mvars, wvars, xvars>>

(***************************************************************************)
(* Part 1: the mmap-offset registry and the global offset allocator.       *)
(***************************************************************************)

\* Size, in pages, of the address space the vma offset manager hands out.
AddrPages == 4
\* Number of struct i915_mmap_offset the allocator (kmalloc) can hold at once.
MaxMmo == 4
\* Pages of offset space still held by an object that is freed but not reaped.
DeadPages == 2

Objs == {"o1"}
\* obj->base.size / PAGE_SIZE
ObjPages(o) == 2
MmapTypes == {"GTT", "WB"}
AThreads == {"a1", "a2"}
\* Each thread acts for one client, a struct drm_file, and may pass file = NULL.
FileOf(t) == IF t = "a1" THEN "f1" ELSE "f2"
Files == {FileOf(t) : t \in AThreads}
NoFile == "NULL"

\* A NULL struct i915_mmap_offset pointer.
NULL == 0
MmoIds == 1..MaxMmo
\* The mmo of the dead object: it lives outside the kmalloc pool of the model.
DeadMmo == MaxMmo + 1


NoMmo == [obj |-> "none", mmap_type |-> "none", vm_files |-> {}]

\* pc and locals of i915_gem_mmap_offset_attach (obj, mmap_type, file, mmo, err),
\* what the call returned (ret, off), and the history of the call: nadd and nok
\* count the drm_vma_offset_add calls and those that succeeded, reaped says
\* the reaping ran, fresh that the object had no such mmo when the call began,
\* lost that insert_mmo dropped the call's own mmo, errat where it failed.
AIdle == [pc |-> "idle", obj |-> "o1", mmap_type |-> "GTT", file |-> NoFile,
          mmo |-> NULL, err |-> "0", nadd |-> 0, nok |-> 0, reaped |-> FALSE,
          fresh |-> FALSE, lost |-> FALSE, errat |-> "none",
          ret |-> "none", off |-> -1]

\* The pages [start, start + pages) are inside the address space and free.
RangeFree(start, pages) ==
  /\ start + pages <= AddrPages
  /\ \A n \in nodes : n.start + n.pages <= start \/ start + pages <= n.start

\* drm_vma_offset_add(): the holes that fit a node of `pages`, and the start
\* the allocator gives it (the lowest one).
FreeStarts(pages) == {s \in 0..(AddrPages - 1) : RangeFree(s, pages)}
FirstFit(pages) == CHOOSE s \in FreeStarts(pages) :
                     \A r \in FreeStarts(pages) : s <= r

\* drm_vma_node_offset_addr(): the offset of an allocated node, in pages.
NodeStart(m) == IF \E n \in nodes : n.mmo = m
                THEN (CHOOSE n \in nodes : n.mmo = m).start
                ELSE -1

\* lookup_mmo(): the mmo of the object's tree with this mmap_type, or NULL.
lookup_mmo_any_type(o, ty) ==
  IF offsets[o] # {} THEN CHOOSE m \in offsets[o] : TRUE ELSE NULL
lookup_mmo(o, ty) ==
  IF \E m \in offsets[o] : heap[m].mmap_type = ty
  THEN CHOOSE m \in offsets[o] : heap[m].mmap_type = ty
  ELSE NULL

AInitCommon ==
  /\ offsets = [o \in Objs |-> {}]
  /\ heap = [m \in MmoIds |-> NoMmo]
  /\ at = [t \in AThreads |-> AIdle]
  /\ abug = FALSE

\* Some offset space may be held by an object that is freed but not yet reaped.
AInit ==
  /\ AInitCommon
  /\ \E d \in {0, DeadPages} :
       IF d = 0 THEN nodes = {} /\ freed = {}
       ELSE /\ nodes = {[mmo |-> DeadMmo, start |-> 0, pages |-> d]}
            /\ freed = {DeadMmo}

AQuiet ==
  /\ AInitCommon
  /\ nodes = {}
  /\ freed = {}

\* The caller enters i915_gem_mmap_offset_attach(obj, mmap_type, file).
AttachCall(t) ==
  /\ at[t].pc = "idle"
  /\ \E o \in Objs, ty \in MmapTypes, f \in {FileOf(t), NoFile} :
       at' = [at EXCEPT ![t] = [AIdle EXCEPT !.pc = "lookup", !.obj = o,
                                  !.mmap_type = ty, !.file = f,
                                  !.fresh = (lookup_mmo(o, ty) = NULL)]]
  /\ UNCHANGED <<offsets, heap, nodes, freed, abug>>
  /\ UNCHANGED AOthers

\* mmo = lookup_mmo(obj, mmap_type); if (mmo) goto out;
AttachLookup(t) ==
  /\ at[t].pc = "lookup"
  /\ LET m == lookup_mmo(at[t].obj, at[t].mmap_type) IN
       at' = [at EXCEPT ![t].mmo = m,
                        ![t].pc = IF m # NULL THEN "out" ELSE "kmalloc"]
  /\ UNCHANGED <<offsets, heap, nodes, freed, abug>>
  /\ UNCHANGED AOthers

\* The call returns: an error pointer, or the mmo whose offset the caller reads.
AReturnErr(t, e, where) ==
  [at[t] EXCEPT !.pc = "done", !.ret = "err", !.err = e, !.errat = where,
                !.mmo = NULL]

\* mmo = kmalloc(); if (!mmo) return ERR_PTR(-ENOMEM); mmo->obj = obj; ...
AttachKmalloc(t) ==
  /\ at[t].pc = "kmalloc"
  /\ \/ /\ at' = [at EXCEPT ![t] = AReturnErr(t, "ENOMEM", "kmalloc")]
        /\ UNCHANGED heap
     \/ /\ \E m \in MmoIds : heap[m] = NoMmo
        /\ LET m == CHOOSE m \in MmoIds :
                       /\ heap[m] = NoMmo
                       /\ \A k \in MmoIds : heap[k] = NoMmo => m <= k IN
             /\ heap' = [heap EXCEPT ![m] = [obj |-> at[t].obj,
                                             mmap_type |-> at[t].mmap_type,
                                             vm_files |-> {}]]
             /\ at' = [at EXCEPT ![t].mmo = m, ![t].pc = "add"]
  /\ UNCHANGED <<offsets, nodes, freed, abug>>
  /\ UNCHANGED AOthers

\* Where a failed drm_vma_offset_add leads: if (likely(!err)) goto insert; the
\* reaping after the first attempt, if (err) goto err; after the second.
AddFailNext_always_reap(pc) == "reap"
AddFailNext(pc) == IF pc = "add" THEN "reap" ELSE "err"

\* err = drm_vma_offset_add(mgr, &mmo->vma_node, obj->base.size / PAGE_SIZE):
\* the first attempt goes to insert on success and to the reaping on failure,
\* the second one to insert on success and to err: kfree(mmo) on failure.
AttachAdd(t) ==
  /\ at[t].pc \in {"add", "add2"}
  /\ LET pages == ObjPages(at[t].obj) IN
     IF FreeStarts(pages) # {}
     THEN LET s == FirstFit(pages) IN
            /\ nodes' = nodes \cup {[mmo |-> at[t].mmo, start |-> s, pages |-> pages]}
            /\ at' = [at EXCEPT ![t].pc = "insert", ![t].err = "0",
                                ![t].nadd = @ + 1, ![t].nok = @ + 1]
            /\ UNCHANGED heap
     ELSE IF AddFailNext(at[t].pc) = "reap"
     THEN /\ at' = [at EXCEPT ![t].pc = "reap", ![t].err = "ENOSPC",
                              ![t].nadd = @ + 1]
          /\ UNCHANGED <<nodes, heap>>
     ELSE /\ at' = [at EXCEPT ![t] = [AReturnErr(t, "ENOSPC", "add")
                                        EXCEPT !.nadd = @ + 1]]
          /\ heap' = [heap EXCEPT ![at[t].mmo] = NoMmo]
          /\ UNCHANGED nodes
  /\ UNCHANGED <<offsets, freed, abug>>
  /\ UNCHANGED AOthers

\* intel_gt_retire_requests(); i915_gem_drain_freed_objects(): the offset
\* space of the objects that wait for their release is given back.
AttachReap(t) ==
  /\ at[t].pc = "reap"
  /\ nodes' = {n \in nodes : n.mmo \notin freed}
  /\ freed' = {}
  /\ at' = [at EXCEPT ![t].pc = "add2", ![t].reaped = TRUE]
  /\ UNCHANGED <<offsets, heap, abug>>
  /\ UNCHANGED AOthers

\* insert_mmo(), the walk down the tree: the mmo of the same mmap_type that is
\* already linked (pos), or NULL when the walk reaches a leaf.
insert_mmo_pos_never(o, m) == NULL
insert_mmo_pos(o, m) == lookup_mmo(o, heap[m].mmap_type)

\* insert_mmo(), on finding pos: drm_vma_offset_remove(mgr, &mmo->vma_node).
insert_mmo_remove_keep(m) == nodes
insert_mmo_remove(m) == {n \in nodes : n.mmo # m}

\* mmo = insert_mmo(obj, mmo), under obj->mmo.lock: link the mmo, or find pos
\* and drop the lock.
AttachInsert(t) ==
  /\ at[t].pc = "insert"
  /\ LET pos == insert_mmo_pos(at[t].obj, at[t].mmo) IN
     IF pos # NULL
     THEN /\ at' = [at EXCEPT ![t].pc = "discard"]
          /\ UNCHANGED offsets
     ELSE /\ offsets' = [offsets EXCEPT ![at[t].obj] = @ \cup {at[t].mmo}]
          /\ at' = [at EXCEPT ![t].pc = "check"]
  /\ UNCHANGED <<heap, nodes, freed, abug>>
  /\ UNCHANGED AOthers

\* insert_mmo(), after the unlock: drm_vma_offset_remove(); kfree(mmo);
\* return pos. pos stays linked: nothing unlinks an mmo of a live object.
AttachDiscard(t) ==
  /\ at[t].pc = "discard"
  /\ nodes' = insert_mmo_remove(at[t].mmo)
  /\ heap' = [heap EXCEPT ![at[t].mmo] = NoMmo]
  /\ at' = [at EXCEPT ![t].mmo = lookup_mmo(at[t].obj, at[t].mmap_type),
                      ![t].lost = TRUE, ![t].pc = "check"]
  /\ UNCHANGED <<offsets, freed, abug>>
  /\ UNCHANGED AOthers

\* GEM_BUG_ON(lookup_mmo(obj, mmap_type) != mmo);
AttachCheck(t) ==
  /\ at[t].pc = "check"
  /\ abug' = (abug \/ lookup_mmo(at[t].obj, at[t].mmap_type) # at[t].mmo)
  /\ at' = [at EXCEPT ![t].pc = "out"]
  /\ UNCHANGED <<offsets, heap, nodes, freed>>
  /\ UNCHANGED AOthers

\* vma_node_allow_once(node, tag): 0 when the tag is on the list already,
\* -ENOMEM when it is not and kmalloc gave no entry (new_ok false), and
\* otherwise the tag is added.
vma_node_allow_once_ret(m, tag, new_ok) ==
  IF tag \in heap[m].vm_files THEN "0"
  ELSE IF ~new_ok THEN "ENOMEM" ELSE "0"

vma_node_allow_once_files_always(m, tag, new_ok) ==
  heap[m].vm_files \cup {tag}
vma_node_allow_once_files(m, tag, new_ok) ==
  IF tag \in heap[m].vm_files \/ ~new_ok THEN heap[m].vm_files
  ELSE heap[m].vm_files \cup {tag}

\* out: if (file) { err = vma_node_allow_once(); if (err) return ERR_PTR(err); }
\* return mmo; the caller reads drm_vma_node_offset_addr(&mmo->vma_node).
AttachOut(t) ==
  /\ at[t].pc = "out"
  /\ IF at[t].file = NoFile
     THEN /\ at' = [at EXCEPT ![t].pc = "done", ![t].ret = "ok",
                              ![t].off = NodeStart(at[t].mmo)]
          /\ UNCHANGED heap
     ELSE \E new_ok \in BOOLEAN :
            LET m == at[t].mmo
                e == vma_node_allow_once_ret(m, at[t].file, new_ok) IN
            /\ heap' = [heap EXCEPT ![m].vm_files =
                          vma_node_allow_once_files(m, at[t].file, new_ok)]
            /\ at' = [at EXCEPT ![t] =
                        IF e # "0" THEN AReturnErr(t, e, "allow")
                        ELSE [at[t] EXCEPT !.pc = "done", !.ret = "ok",
                                           !.off = NodeStart(m)]]
  /\ UNCHANGED <<offsets, nodes, freed, abug>>
  /\ UNCHANGED AOthers

\* The caller has read the result; the thread is free for another call.
AttachDone(t) ==
  /\ at[t].pc = "done"
  /\ at' = [at EXCEPT ![t] = AIdle]
  /\ UNCHANGED <<offsets, heap, nodes, freed, abug>>
  /\ UNCHANGED AOthers

ANext ==
  \E t \in AThreads :
    \/ AttachCall(t)
    \/ AttachLookup(t)
    \/ AttachKmalloc(t)
    \/ AttachAdd(t)
    \/ AttachReap(t)
    \/ AttachInsert(t)
    \/ AttachDiscard(t)
    \/ AttachCheck(t)
    \/ AttachOut(t)
    \/ AttachDone(t)

(***************************************************************************)
(* Part 2: compute_partial_view, a pure function of the object (its size   *)
(* in pages, whether it is tiled, its tile row in pages), the faulting     *)
(* page and the chunk.                                                     *)
(***************************************************************************)

\* Largest object, in pages, tile row and chunk the function is applied to.
MaxPvPages == 9
MaxPvRow == 3
MaxPvChunk == 4

\* MIN_CHUNK_PAGES: SZ_1M >> PAGE_SHIFT
MIN_CHUNK_PAGES == 256

NoView == [type |-> "none", offset |-> 0, size |-> 0]

roundup(x, y) == ((x + y - 1) \div y) * y
rounddown_not_at_all(x, y) == x
rounddown(x, y) == x - (x % y)
\* min_t(unsigned int, a, b): both arguments are page counts of the object
\* and far below 2^32, so the cast to unsigned int leaves them as they are.
min_u32(a, b) == IF a < b THEN a ELSE b

\* if (i915_gem_object_is_tiled(obj))
\*         chunk = roundup(chunk, tile_row_pages(obj) ?: 1);
partial_chunk_unrounded(tiled, row, chunk) == chunk
partial_chunk(tiled, row, chunk) ==
  IF tiled THEN roundup(chunk, IF row # 0 THEN row ELSE 1) ELSE chunk

compute_partial_view(pages, tiled, row, page_offset, chunk) ==
  LET c == partial_chunk(tiled, row, chunk)
      off == rounddown(page_offset, c) IN
  [type |-> IF c >= pages THEN "NORMAL" ELSE "PARTIAL",
   offset |-> off,
   size |-> min_u32(c, pages - off)]

PvInputs ==
  [pages : 1..MaxPvPages, tiled : BOOLEAN, row : 0..MaxPvRow,
   page_offset : 0..(MaxPvPages - 1), chunk : 1..MaxPvChunk]

\* The call vm_fault_gtt makes for a fault at page 300 of a tiled object of
\* 4096 pages whose tile row is 64 pages.
PvScenario ==
  [pages |-> 4096, tiled |-> TRUE, row |-> 64, page_offset |-> 300,
   chunk |-> MIN_CHUNK_PAGES]

\* The fault handler passes a page of the object; an untiled object has no row.
PInit ==
  /\ pvin \in {i \in PvInputs : /\ i.page_offset < i.pages
                                 /\ (~i.tiled => i.row = 0)}
               \cup {PvScenario}
  /\ pvout = NoView

PQuiet ==
  /\ pvin = [pages |-> 1, tiled |-> FALSE, row |-> 0, page_offset |-> 0,
             chunk |-> 1]
  /\ pvout = NoView

ComputePartialView ==
  /\ pvout = NoView
  /\ pvout' = compute_partial_view(pvin.pages, pvin.tiled, pvin.row,
                                   pvin.page_offset, pvin.chunk)
  /\ UNCHANGED pvin
  /\ UNCHANGED POthers

PNext == ComputePartialView

(***************************************************************************)
(* Part 3: the swap policy, use_swapto and create_swapto: a function of    *)
(* the object, of the build options and of the access.                     *)
(***************************************************************************)

\* size >> 8: the sizes below are multiples of 2^8.
SwUnit == 256
\* Largest object size and largest free budget of the region, in SwUnit.
MaxSwSize == 2
MaxSwAvail == 5

NoShadow == "none"
NoTarget == [pg |-> "none", swapto |-> NoShadow, size |-> 0, bug |-> FALSE]

\* The build options (CHICKEN_MMAP_SWAP, CHICKEN_MMAP_SWAP_CREATE), the
\* object (obj->swapto: NoShadow or the madv of the shadow; lmem, has_pages,
\* purged, size, the avail of its region, HAS_FLAT_CCS, its gt wedged),
\* the access and whether i915_gem_object_create_shmem succeeds.
SwInputs ==
  [swap : BOOLEAN, swap_create : BOOLEAN,
   swapto : {NoShadow, "WILLNEED", "DONTNEED"},
   lmem : BOOLEAN, has_pages : BOOLEAN, purged : BOOLEAN, write : BOOLEAN,
   size : {SwUnit * k : k \in 1..MaxSwSize},
   avail : {SwUnit * k : k \in 0..MaxSwAvail},
   flat_ccs : BOOLEAN, wedged : BOOLEAN, shmem_ok : BOOLEAN]

\* The object itself is the target; obj->swapto stays as it is.
SwObj(i) == [pg |-> "obj", swapto |-> i.swapto, size |-> 0, bug |-> FALSE]

\* if (write && 2 * size < atomic64_read(&obj->mm.region.mem->avail)) return obj;
swap_write_fits_always(i) == i.write
swap_write_fits(i) == i.write /\ 2 * i.size < i.avail

\* if (!swp || swp->mm.madv != I915_MADV_WILLNEED) return create_swapto();
swap_usable_any_madv(i) == i.swapto # NoShadow
swap_usable(i) == i.swapto = "WILLNEED"

\* create_swapto(obj, write): the new shadow has madv WILLNEED, the size of
\* the object (plus size >> 8 with flat CCS on a gt that is not wedged) and
\* shares the object's resv; GEM_BUG_ON(obj->swapto); obj->swapto = swp;
create_swapto(i) ==
  IF ~i.swap_create THEN SwObj(i)
  ELSE IF ~i.lmem THEN SwObj(i)
  ELSE IF i.has_pages \/ i.purged THEN SwObj(i)
  ELSE IF swap_write_fits(i) THEN SwObj(i)
  ELSE IF ~i.shmem_ok THEN SwObj(i)
  ELSE [pg |-> "swp", swapto |-> "WILLNEED",
        size |-> IF i.flat_ccs /\ ~i.wedged
                 THEN i.size + (i.size \div SwUnit) ELSE i.size,
        bug |-> i.swapto # NoShadow]

\* use_swapto(obj, write)
use_swapto(i) ==
  IF ~i.swap THEN SwObj(i)
  ELSE IF ~swap_usable(i) THEN create_swapto(i)
  ELSE [pg |-> "swp", swapto |-> i.swapto, size |-> 0, bug |-> FALSE]

SInit ==
  /\ swin \in SwInputs
  /\ swout = NoTarget

SQuiet ==
  /\ swin = [swap |-> FALSE, swap_create |-> FALSE, swapto |-> NoShadow,
             lmem |-> FALSE, has_pages |-> FALSE, purged |-> FALSE,
             write |-> FALSE, size |-> SwUnit, avail |-> 0,
             flat_ccs |-> FALSE, wedged |-> FALSE, shmem_ok |-> FALSE]
  /\ swout = NoTarget

\* pg = use_swapto(obj, write);
UseSwapto ==
  /\ swout = NoTarget
  /\ swout' = use_swapto(swin)
  /\ UNCHANGED swin
  /\ UNCHANGED SOthers

SNext == UseSwapto

(***************************************************************************)
(* Part 4: the fault handlers of one object that is mapped into userspace, *)
(* vm_fault_gtt and vm_fault_cpu, and the revocation of its GTT mmaps,     *)
(* i915_gem_object_release_mmap_gtt.                                       *)
(***************************************************************************)

\* Size of the faulting object, in pages: two chunks.
GObjPages == 512

FThreads == {"t1"}
NoOwner == "none"
\* Another holder of the object's reservation lock (an execbuf, an eviction).
OtherOwner == "other"
\* The objects a fault pins the pages of: the object or its shadow (swapto).
Targets == {"obj", "swp"}
\* The pages userspace touches: the first and the last page of the object.
FaultPages == {0, GObjPages - 1}

\* The view of the whole object and the partial views vm_fault_gtt asks for;
\* each one names a struct i915_vma of the object in the GGTT.
FullView == [type |-> "NORMAL", offset |-> 0, size |-> GObjPages]
PartialViewOf(page) ==
  compute_partial_view(GObjPages, FALSE, 0, page, MIN_CHUNK_PAGES)
\* A view of type NORMAL is the vma of the whole object whatever its range.
VmaOf(view) == IF view.type = "NORMAL" THEN FullView ELSE view
GViews ==
  {FullView} \cup {[PartialViewOf(pg) EXCEPT !.type = "PARTIAL"] : pg \in FaultPages}
\* The pages of FaultPages a vma maps: area->vm_start + partial.offset, vma->size.
ViewPages(v) == {pg \in FaultPages : v.offset <= pg /\ pg < v.offset + v.size}

\* The errno values the fault handlers name (errno-base.h, errno.h).
Errno(name) ==
  CASE name = "0" -> 0
    [] name = "EINTR" -> 4
    [] name = "EIO" -> 5
    [] name = "ENXIO" -> 6
    [] name = "E2BIG" -> 7
    [] name = "EAGAIN" -> 11
    [] name = "ENOMEM" -> 12
    [] name = "EFAULT" -> 14
    [] name = "EBUSY" -> 16
    [] name = "ENODEV" -> 19
    [] name = "ENOSPC" -> 28
    [] name = "EDEADLK" -> 35
    [] name = "ERESTARTSYS" -> 512

\* Largest |err| i915_error_to_vmf_fault is applied to.
MaxErrno == 515

\* The case labels of i915_error_to_vmf_fault.
SigbusErrnos == {-Errno(n) : n \in {"EIO", "EFAULT", "ENODEV", "ENXIO", "E2BIG"}}
OomErrnos == {-Errno("ENOMEM")}
NopageErrnos_without_ENOSPC ==
  {-Errno(n) : n \in {"0", "EAGAIN", "ERESTARTSYS", "EINTR", "EBUSY"}}
NopageErrnos ==
  {-Errno(n) : n \in {"0", "EAGAIN", "ENOSPC", "ERESTARTSYS", "EINTR", "EBUSY"}}

\* default: WARN_ONCE(err, "unhandled error in %s: %i\n", __func__, err);
i915_error_unhandled(err) ==
  err \notin SigbusErrnos \cup OomErrnos \cup NopageErrnos

\* i915_error_to_vmf_fault(): the vm_fault_t of an err.
i915_error_to_vmf_fault(err) ==
  CASE err \in SigbusErrnos -> "VM_FAULT_SIGBUS"
    [] err \in OomErrnos -> "VM_FAULT_OOM"
    [] err \in NopageErrnos -> "VM_FAULT_NOPAGE"
    [] OTHER -> "VM_FAULT_SIGBUS"

EInit ==
  /\ errno_in = 0
  /\ fault_out = "none"
  /\ warned = FALSE
  /\ warnings = 0

\* A fault handler returns i915_error_to_vmf_fault(err).
ErrorToFault ==
  /\ \E err \in (-MaxErrno)..MaxErrno :
       /\ errno_in' = err
       /\ fault_out' = i915_error_to_vmf_fault(err)
       /\ warned' = (warned \/ (i915_error_unhandled(err) /\ err # 0))
       /\ warnings' = IF i915_error_unhandled(err) /\ err # 0 /\ ~warned
                      THEN warnings + 1 ELSE warnings
  /\ UNCHANGED EOthers

ENext == ErrorToFault

NoVma == [type |-> "none", offset |-> 0, size |-> 0]
VmaInit == [bound |-> FALSE, pin |-> 0, fence |-> 0, userfault |-> FALSE]

\* What vm_fault_cpu found at its migration step: whether the criteria were
\* met and migration was required, whether the pages were pinned, and err.
NoMigration == [kind |-> "none", pinned |-> FALSE, err |-> "0"]

\* pc and locals of a fault handler: the vm_operations_struct of the area
\* (ops: vm_ops_gtt or vm_ops_cpu), write, page_offset, ret/err, vma, view, pg,
\* the vm_fault_t it returned (out) and whether its ww context holds a lock
\* of some other object after a backoff (other), and the resources
\* vm_fault_gtt holds, in the order it acquired them (held).
FIdle == [pc |-> "idle", ops |-> "none", write |-> FALSE, page |-> 0,
          ret |-> "0", vma |-> NoVma, view |-> NoVma, pg |-> "obj",
          other |-> FALSE, out |-> "none", held |-> <<>>,
          mig |-> NoMigration]

\* The resources held after one more is acquired, and after one is released:
\* a release of anything but the resource acquired last is recorded as such.
Acquire(held, r) == Append(held, r)
Release(held, r) ==
  IF held # <<>> /\ held[Len(held)] = r
  THEN SubSeq(held, 1, Len(held) - 1)
  ELSE <<"misplaced", r>>

\* pc of i915_gem_object_release_mmap_gtt, the vma its loop has still to
\* visit, userfault_count as it found it (n0) and, of the PTEs that were
\* populated when it was called, those that have not been zapped since (old).
RIdle == [pc |-> "idle", todo |-> {}, n0 |-> 0, old |-> {}]

GInitCommon ==
  /\ resv = NoOwner
  /\ pages_pin = [o \in Targets |-> 0]
  /\ swapto = NoShadow
  /\ active_fault_handlers = 0
  /\ cpu_ptes = FALSE
  /\ reset_srcu = 0
  /\ wakerefs = 0
  /\ vma = [v \in GViews |-> VmaInit]
  /\ ptes = {}
  /\ userfault_count = 0
  /\ userfault_list = <<>>
  /\ vm_mutex = NoOwner
  /\ gbug = FALSE
  /\ ft = [t \in FThreads |-> FIdle]
  /\ rv = RIdle
  /\ iv = "idle"

\* The object is read-only or not; an invalidation of the lmem mmaps is in
\* flight or not.
GInit ==
  /\ GInitCommon
  /\ readonly \in BOOLEAN
  /\ invalidate_lmem_mmaps = FALSE

RInit ==
  /\ GInitCommon
  /\ readonly \in BOOLEAN
  /\ invalidate_lmem_mmaps \in BOOLEAN

GQuiet == GInitCommon /\ readonly = FALSE /\ invalidate_lmem_mmaps = FALSE

\* What stays as it is in a step that only moves a handler on.
GSame(names) ==
  /\ (IF "resv" \in names THEN TRUE ELSE UNCHANGED resv)
  /\ (IF "pages_pin" \in names THEN TRUE ELSE UNCHANGED pages_pin)
  /\ (IF "swapto" \in names THEN TRUE ELSE UNCHANGED swapto)
  /\ (IF "active_fault_handlers" \in names THEN TRUE
      ELSE UNCHANGED active_fault_handlers)
  /\ (IF "cpu_ptes" \in names THEN TRUE ELSE UNCHANGED cpu_ptes)
  /\ (IF "reset_srcu" \in names THEN TRUE ELSE UNCHANGED reset_srcu)
  /\ (IF "wakerefs" \in names THEN TRUE ELSE UNCHANGED wakerefs)
  /\ (IF "vma" \in names THEN TRUE ELSE UNCHANGED vma)
  /\ (IF "ptes" \in names THEN TRUE ELSE UNCHANGED ptes)
  /\ (IF "userfault" \in names THEN TRUE ELSE UNCHANGED <<userfault_count, userfault_list>>)
  /\ (IF "vm_mutex" \in names THEN TRUE ELSE UNCHANGED vm_mutex)
  /\ (IF "gbug" \in names THEN TRUE ELSE UNCHANGED gbug)
  /\ (IF "ft" \in names THEN TRUE ELSE UNCHANGED ft)
  /\ (IF "rv" \in names THEN TRUE ELSE UNCHANGED rv)
  /\ UNCHANGED <<readonly, invalidate_lmem_mmaps, iv>>
  /\ UNCHANGED GOthers

\* vm_fault_gtt() is entered: wakeref = intel_runtime_pm_get(rpm);
\* i915_gem_ww_ctx_init(&ww, true);
GttFault(t) ==
  /\ ft[t].pc = "idle"
  /\ \E w \in BOOLEAN, pg \in FaultPages :
       ft' = [ft EXCEPT ![t] = [FIdle EXCEPT !.pc = "lock", !.ops = "vm_ops_gtt",
                                            !.write = w, !.page = pg,
                                            !.held = <<"wakeref">>]]
  /\ wakerefs' = wakerefs + 1
  /\ GSame({"ft", "wakerefs"})

\* retry: ret = i915_gem_object_lock(obj, &ww); if (ret) goto err_rpm;
\* The lock is taken when it is free. While another context holds it the
\* caller sleeps, and the interruptible sleep may end with -EINTR, or with
\* -EDEADLK when this context already holds a lock.
GttLock(t) ==
  /\ ft[t].pc = "lock"
  /\ \/ /\ resv = NoOwner
        /\ resv' = t
        /\ ft' = [ft EXCEPT ![t].pc = "ro", ![t].ret = "0",
                             ![t].held = Acquire(@, "lock")]
     \/ /\ resv \notin {NoOwner, t}
        /\ \E e \in {"EINTR"} \cup (IF ft[t].other THEN {"EDEADLK"} ELSE {}) :
             ft' = [ft EXCEPT ![t].pc = "err_rpm", ![t].ret = e]
        /\ UNCHANGED resv
  /\ GSame({"ft", "resv"})

\* if (i915_gem_object_is_readonly(obj) && write) { ret = -EFAULT; goto err_rpm; }
gtt_write_denied_never(t) == FALSE
gtt_write_denied(t) == readonly /\ ft[t].write

GttReadonly(t) ==
  /\ ft[t].pc = "ro"
  /\ ft' = [ft EXCEPT ![t] =
              IF gtt_write_denied(t)
              THEN [ft[t] EXCEPT !.pc = "err_rpm", !.ret = "EFAULT"]
              ELSE [ft[t] EXCEPT !.pc = "pin_pages"]]
  /\ GSame({"ft"})

\* ret = i915_gem_object_pin_pages_sync(obj); if (ret) goto err_rpm;
GttPinPages(t) ==
  /\ ft[t].pc = "pin_pages"
  /\ \/ /\ pages_pin' = [pages_pin EXCEPT !["obj"] = @ + 1]
        /\ ft' = [ft EXCEPT ![t].pc = "reset_lock",
                             ![t].held = Acquire(@, "pages")]
     \/ /\ \E e \in {"ENOMEM", "EDEADLK"} :
             ft' = [ft EXCEPT ![t].pc = "err_rpm", ![t].ret = e]
        /\ UNCHANGED pages_pin
  /\ GSame({"ft", "pages_pin"})

\* ret = intel_gt_reset_lock_interruptible(ggtt->vm.gt, &srcu);
\* if (ret) goto err_pages;
GttResetLock(t) ==
  /\ ft[t].pc = "reset_lock"
  /\ \/ /\ reset_srcu' = reset_srcu + 1
        /\ ft' = [ft EXCEPT ![t].pc = "pin",
                             ![t].held = Acquire(@, "reset")]
     \/ /\ ft' = [ft EXCEPT ![t].pc = "err_pages", ![t].ret = "EIO"]
        /\ UNCHANGED reset_srcu
  /\ GSame({"ft", "reset_srcu"})

\* i915_gem_object_ggtt_pin_ww() succeeds: the vma of the view is bound (under
\* vm.mutex, taken and dropped inside) and pinned.
GttPinned(t, v) ==
  /\ vm_mutex = NoOwner
  /\ vma' = [vma EXCEPT ![v].bound = TRUE, ![v].pin = @ + 1]
  /\ ft' = [ft EXCEPT ![t].pc = "cache", ![t].vma = v,
                      ![t].held = Acquire(@, "vma")]

\* vma = i915_gem_object_ggtt_pin_ww(obj, &ww, ggtt, NULL, 0, 0,
\*         guard | PIN_MAPPABLE | PIN_NONBLOCK | PIN_NOEVICT);
\* On an error other than -EDEADLK the partial view is computed.
GttPin(t) ==
  /\ ft[t].pc = "pin"
  /\ \/ GttPinned(t, FullView)
     \/ /\ ft' = [ft EXCEPT ![t].pc = "pin2",
                             ![t].view = PartialViewOf(ft[t].page)]
        /\ UNCHANGED vma
     \/ /\ ft' = [ft EXCEPT ![t].pc = "err_reset", ![t].ret = "EDEADLK"]
        /\ UNCHANGED vma
  /\ GSame({"ft", "vma"})

\* The flags of the three i915_gem_object_ggtt_pin_ww calls, by the pc of
\* the call: of the whole object, of the view, and of the view once more.
GttPinFlags(pc, view) ==
  CASE pc = "pin" -> {"PIN_MAPPABLE", "PIN_NONBLOCK", "PIN_NOEVICT"}
    [] pc = "pin2" -> {"PIN_MAPPABLE", "PIN_NOSEARCH"} \cup
                      (IF view.type = "NORMAL" THEN {"PIN_NONBLOCK"} ELSE {})
    [] pc = "pin3" -> {"PIN_MAPPABLE"}
    [] OTHER -> {}

\* if (IS_ERR(vma) && vma != ERR_PTR(-EDEADLK)) { flags = PIN_MAPPABLE; ... }
partial_retry_label_none == "err_reset"
partial_retry_label == "pin3"

\* flags = PIN_MAPPABLE | PIN_NOSEARCH (| PIN_NONBLOCK for a NORMAL view);
\* vma = i915_gem_object_ggtt_pin_ww(obj, &ww, ggtt, &view, 0, 0, guard | flags);
GttPinPartial(t) ==
  /\ ft[t].pc = "pin2"
  /\ \/ GttPinned(t, VmaOf(ft[t].view))
     \/ /\ ft' = [ft EXCEPT ![t].pc = partial_retry_label]
        /\ UNCHANGED vma
     \/ /\ ft' = [ft EXCEPT ![t].pc = "err_reset", ![t].ret = "EDEADLK"]
        /\ UNCHANGED vma
  /\ GSame({"ft", "vma"})

\* flags = PIN_MAPPABLE; view.type = I915_GGTT_VIEW_PARTIAL;
\* vma = i915_gem_object_ggtt_pin_ww(obj, &ww, ggtt, &view, 0, 0, guard | flags);
\* GEM_BUG_ON(vma == ERR_PTR(-ENOSPC)); if (IS_ERR(vma)) goto err_reset;
GttPinSearch(t) ==
  /\ ft[t].pc = "pin3"
  /\ \/ GttPinned(t, [ft[t].view EXCEPT !.type = "PARTIAL"])
     \/ /\ \E e \in {"EDEADLK", "EBUSY"} :
             ft' = [ft EXCEPT ![t].pc = "err_reset", ![t].ret = e,
                              ![t].view.type = "PARTIAL"]
        /\ UNCHANGED vma
  /\ GSame({"ft", "vma"})

\* if (!(i915_gem_object_has_cache_level(obj, I915_CACHE_NONE) || HAS_LLC(i915)))
\*         { ret = -EFAULT; goto err_unpin; }
GttCache(t) ==
  /\ ft[t].pc = "cache"
  /\ \E coherent \in BOOLEAN :
       ft' = [ft EXCEPT ![t] =
                IF coherent THEN [ft[t] EXCEPT !.pc = "fence"]
                ELSE [ft[t] EXCEPT !.pc = "err_unpin", !.ret = "EFAULT"]]
  /\ GSame({"ft"})

\* ret = i915_vma_pin_fence_wait(vma); if (ret) goto err_unpin;
fence_fail_label_err_fence == "err_fence"
fence_fail_label == "err_unpin"

GttFence(t) ==
  /\ ft[t].pc = "fence"
  /\ \/ /\ vma' = [vma EXCEPT ![ft[t].vma].fence = @ + 1]
        /\ ft' = [ft EXCEPT ![t].pc = "remap",
                             ![t].held = Acquire(@, "fence")]
     \/ /\ ft' = [ft EXCEPT ![t].pc = fence_fail_label, ![t].ret = "EINTR"]
        /\ UNCHANGED vma
  /\ GSame({"ft", "vma"})

\* ret = remap_io_mapping(area, area->vm_start + (partial.offset << PAGE_SHIFT),
\*         ..., min_t(u64, vma->size, area->vm_end - area->vm_start), &ggtt->iomap);
\* if (ret) goto err_fence;
GttRemap(t) ==
  /\ ft[t].pc = "remap"
  /\ \/ /\ ptes' = ptes \cup ViewPages(ft[t].vma)
        /\ ft' = [ft EXCEPT ![t].pc = "mark"]
     \/ /\ ft' = [ft EXCEPT ![t].pc = "err_fence", ![t].ret = "ENOMEM"]
        /\ UNCHANGED ptes
  /\ GSame({"ft", "ptes"})

\* mutex_lock(&ggtt->vm.mutex): the owner of the mutex from here on.
mark_mutex_not_taken(t) == NoOwner
mark_mutex(t) == t

GttMarkLock(t) ==
  /\ ft[t].pc = "mark"
  /\ vm_mutex = NoOwner
  /\ vm_mutex' = mark_mutex(t)
  /\ ft' = [ft EXCEPT ![t].pc = "mark_set"]
  /\ GSame({"ft", "vm_mutex"})

\* if (!i915_vma_set_userfault(vma) && ...: test and set the vma's flag.
GttMarkSet(t) ==
  /\ ft[t].pc = "mark_set"
  /\ vma' = [vma EXCEPT ![ft[t].vma].userfault = TRUE]
  /\ ft' = [ft EXCEPT ![t].pc = IF vma[ft[t].vma].userfault THEN "mark_unlock"
                                 ELSE "mark_count"]
  /\ GSame({"ft", "vma"})

\* ... && !obj->userfault_count++): the value before the increment decides.
userfault_first_or_later(count) == TRUE
userfault_first(count) == count = 0

GttMarkCount(t) ==
  /\ ft[t].pc = "mark_count"
  /\ userfault_count' = userfault_count + 1
  /\ UNCHANGED userfault_list
  /\ ft' = [ft EXCEPT ![t].pc = IF userfault_first(userfault_count)
                                 THEN "mark_list" ELSE "mark_unlock"]
  /\ GSame({"ft", "userfault"})

\* list_add(&obj->userfault_link, &ggtt->userfault_list);
GttMarkList(t) ==
  /\ ft[t].pc = "mark_list"
  /\ userfault_list' = <<"obj">> \o userfault_list
  /\ UNCHANGED userfault_count
  /\ ft' = [ft EXCEPT ![t].pc = "mark_unlock"]
  /\ GSame({"ft", "userfault"})

\* mutex_unlock(&ggtt->vm.mutex); vma->mmo = mmo; intel_wakeref_auto();
\* if (write) { GEM_BUG_ON(!i915_gem_object_has_pinned_pages(obj)); ... }
GttMarkUnlock(t) ==
  /\ ft[t].pc = "mark_unlock"
  /\ vm_mutex' = NoOwner
  /\ gbug' = (gbug \/ (ft[t].write /\ pages_pin["obj"] = 0))
  /\ ft' = [ft EXCEPT ![t].pc = "err_fence"]
  /\ GSame({"ft", "vm_mutex", "gbug"})

\* err_fence: i915_vma_unpin_fence(vma);
GttErrFence(t) ==
  /\ ft[t].pc = "err_fence"
  /\ vma' = [vma EXCEPT ![ft[t].vma].fence = @ - 1]
  /\ ft' = [ft EXCEPT ![t].pc = "err_unpin",
                      ![t].held = Release(@, "fence")]
  /\ GSame({"ft", "vma"})

\* err_unpin: __i915_vma_unpin(vma);
GttErrUnpin(t) ==
  /\ ft[t].pc = "err_unpin"
  /\ vma' = [vma EXCEPT ![ft[t].vma].pin = @ - 1]
  /\ ft' = [ft EXCEPT ![t].pc = "err_reset", ![t].vma = NoVma,
                      ![t].held = Release(@, "vma")]
  /\ GSame({"ft", "vma"})

\* err_reset: intel_gt_reset_unlock(ggtt->vm.gt, srcu);
GttErrReset(t) ==
  /\ ft[t].pc = "err_reset"
  /\ reset_srcu' = reset_srcu - 1
  /\ ft' = [ft EXCEPT ![t].pc = "err_pages",
                      ![t].held = Release(@, "reset")]
  /\ GSame({"ft", "reset_srcu"})

\* err_pages: i915_gem_object_unpin_pages(obj);
GttErrPages(t) ==
  /\ ft[t].pc = "err_pages"
  /\ pages_pin' = [pages_pin EXCEPT !["obj"] = @ - 1]
  /\ ft' = [ft EXCEPT ![t].pc = "err_rpm",
                      ![t].held = Release(@, "pages")]
  /\ GSame({"ft", "pages_pin"})

\* The locks a ww context drops: the object's, if the context holds it.
WwUnlock(t) == IF resv = t THEN NoOwner ELSE resv
\* retry: the label a successful backoff jumps to.
backoff_retry_label_bind == "pin"
backoff_retry_label == "lock"
WwReleased(t) ==
  IF resv = t THEN Release(ft[t].held, "lock") ELSE ft[t].held

\* err_rpm: if (ret == -EDEADLK) { ret = i915_gem_ww_ctx_backoff(&ww);
\*                                 if (!ret) goto retry; }
\* The backoff drops every lock of the context and sleeps on the contended
\* one, which it then holds; the interruptible sleep may end with -EINTR.
GttBackoff(t) ==
  /\ ft[t].pc = "err_rpm"
  /\ ft[t].ret = "EDEADLK"
  /\ resv' = WwUnlock(t)
  /\ \/ ft' = [ft EXCEPT ![t].pc = backoff_retry_label, ![t].ret = "0",
                          ![t].other = TRUE,
                          ![t].held = WwReleased(t)]
     \/ ft' = [ft EXCEPT ![t].pc = "fini", ![t].ret = "EINTR",
                          ![t].other = FALSE, ![t].held = WwReleased(t)]
  /\ GSame({"ft", "resv"})

\* err_rpm with another error, or after a failed backoff:
\* i915_gem_ww_ctx_fini(&ww); intel_runtime_pm_put(rpm, wakeref);
\* return i915_error_to_vmf_fault(ret);
GttReturn(t) ==
  /\ \/ ft[t].pc = "err_rpm" /\ ft[t].ret # "EDEADLK"
     \/ ft[t].pc = "fini"
  /\ resv' = WwUnlock(t)
  /\ wakerefs' = wakerefs - 1
  /\ ft' = [ft EXCEPT ![t].pc = "done", ![t].other = FALSE,
                      ![t].out = i915_error_to_vmf_fault(-Errno(ft[t].ret)),
                      ![t].held = Release(WwReleased(t), "wakeref")]
  /\ GSame({"ft", "resv", "wakerefs"})

\* vm_fault_cpu(): if (unlikely(i915_gem_object_is_readonly(obj) && write))
\*                         return VM_FAULT_SIGBUS;
cpu_write_denied_never(w) == FALSE
cpu_write_denied(w) == readonly /\ w

\* vm_fault_cpu() is entered: the sanity check, then
\* atomic_inc(&i915->active_fault_handlers);
CpuFault(t) ==
  /\ ft[t].pc = "idle"
  /\ \E w \in BOOLEAN, pg \in FaultPages :
       IF cpu_write_denied(w)
       THEN /\ ft' = [ft EXCEPT ![t] =
                        [FIdle EXCEPT !.pc = "done", !.ops = "vm_ops_cpu",
                                      !.write = w, !.page = pg,
                                      !.out = "VM_FAULT_SIGBUS"]]
            /\ UNCHANGED active_fault_handlers
       ELSE /\ ft' = [ft EXCEPT ![t] =
                        [FIdle EXCEPT !.pc = "c_flag", !.ops = "vm_ops_cpu",
                                      !.write = w, !.page = pg]]
            /\ active_fault_handlers' = active_fault_handlers + 1
  /\ GSame({"ft", "active_fault_handlers"})

\* if (READ_ONCE(i915->invalidate_lmem_mmaps)) { ret = VM_FAULT_SIGBUS; goto out; }
cpu_reads_flag_clear == FALSE
cpu_reads_flag == invalidate_lmem_mmaps

CpuFlag(t) ==
  /\ ft[t].pc = "c_flag"
  /\ ft' = [ft EXCEPT ![t] =
              IF cpu_reads_flag
              THEN [ft[t] EXCEPT !.pc = "c_out", !.out = "VM_FAULT_SIGBUS"]
              ELSE [ft[t] EXCEPT !.pc = "c_segment"]]
  /\ GSame({"ft"})

\* if (i915_gem_object_has_segments(obj)) { obj = i915_gem_object_lookup_segment();
\*         if (!obj) { ret = VM_FAULT_SIGBUS; goto out; } ... }
\* then the head of do for_i915_gem_ww(&ww, err, true): i915_gem_ww_ctx_init().
CpuSegment(t) ==
  /\ ft[t].pc = "c_segment"
  /\ \E segment \in {"unsegmented", "found", "missing"} :
       ft' = [ft EXCEPT ![t] =
                IF segment = "missing"
                THEN [ft[t] EXCEPT !.pc = "c_out", !.out = "VM_FAULT_SIGBUS"]
                ELSE [ft[t] EXCEPT !.pc = "c_lock", !.other = FALSE]]
  /\ GSame({"ft"})

\* err = i915_gem_object_lock(obj, &ww); if (err) continue;
CpuLock(t) ==
  /\ ft[t].pc = "c_lock"
  /\ \/ /\ resv = NoOwner
        /\ resv' = t
        /\ ft' = [ft EXCEPT ![t].pc = "c_swapto", ![t].ret = "0"]
     \/ /\ resv \notin {NoOwner, t}
        /\ \E e \in {"EINTR"} \cup (IF ft[t].other THEN {"EDEADLK"} ELSE {}) :
             ft' = [ft EXCEPT ![t].pc = "c_ww_fini", ![t].ret = e]
        /\ UNCHANGED resv
  /\ GSame({"ft", "resv"})

\* pg = use_swapto(obj, write), with the CHICKEN_MMAP_SWAP options enabled,
\* of an object of SwUnit bytes: obj->swapto and write are those of the
\* fault, an object with pinned pages has pages, and the rest (lmem, purged,
\* the budget of the region, the creation of the shadow) is as it happens.
CpuSwapto(t) ==
  /\ ft[t].pc = "c_swapto"
  /\ \E lmem \in BOOLEAN, has_pages \in BOOLEAN, purged \in BOOLEAN,
        shmem_ok \in BOOLEAN, avail \in {0, SwUnit * MaxSwAvail} :
       /\ pages_pin["obj"] > 0 => has_pages
       /\ LET r == use_swapto(
                     [swap |-> TRUE, swap_create |-> TRUE, swapto |-> swapto,
                      lmem |-> lmem, has_pages |-> has_pages,
                      purged |-> purged, write |-> ft[t].write,
                      size |-> SwUnit, avail |-> avail, flat_ccs |-> FALSE,
                      wedged |-> FALSE, shmem_ok |-> shmem_ok]) IN
            /\ ft' = [ft EXCEPT ![t].pc = "c_migrate", ![t].pg = r.pg]
            /\ swapto' = r.swapto
            /\ gbug' = (gbug \/ r.bug)
  /\ GSame({"ft", "swapto", "gbug"})

\* if (i915_gem_object_should_migrate_smem(pg, &required)) {
\*         if (i915_gem_object_has_pinned_pages(pg)) err = -EFAULT;
\*         else err = i915_gem_object_migrate_to_smem(pg, &ww, false);
\*         if (err && required) continue;
\*         else if (err == -EDEADLK) continue;
\*         else err = 0; }
\* The pages of pg are pinned when a handler of the model holds a pin, and
\* may be pinned by somebody else. mig records the migration of this pass for
\* the step that follows.
migrate_gives_up_on_any_error(err, required) == err # "0"
migrate_gives_up(err, required) ==
  (err # "0" /\ required) \/ err = "EDEADLK"

CpuMigrate(t) ==
  /\ ft[t].pc = "c_migrate"
  /\ \E migrate \in BOOLEAN, required \in BOOLEAN, pinned \in BOOLEAN,
        result \in {"0", "EDEADLK", "ENOMEM"} :
       /\ migrate /\ pages_pin[ft[t].pg] > 0 => pinned
       /\ ~migrate => ~required /\ ~pinned /\ result = "0"
       /\ pinned => result = "0"
       /\ LET err == IF pinned THEN "EFAULT" ELSE result
              m == [kind |-> IF ~migrate THEN "none"
                             ELSE IF required THEN "required" ELSE "optional",
                    pinned |-> pinned, err |-> err] IN
          ft' = [ft EXCEPT ![t] =
                   IF migrate /\ migrate_gives_up(err, required)
                   THEN [ft[t] EXCEPT !.pc = "c_ww_fini", !.ret = err,
                                      !.mig = m]
                   ELSE [ft[t] EXCEPT !.pc = "c_pin_pages", !.ret = "0",
                                      !.mig = m]]
  /\ GSame({"ft"})

\* err = i915_gem_object_pin_pages_sync(pg); if (err) continue;
CpuPinPages(t) ==
  /\ ft[t].pc = "c_pin_pages"
  /\ \/ /\ pages_pin' = [pages_pin EXCEPT ![ft[t].pg] = @ + 1]
        /\ ft' = [ft EXCEPT ![t].pc = "c_remap", ![t].mig = NoMigration]
     \/ /\ \E e \in {"ENOMEM", "EDEADLK", "ENXIO", "EIO"} :
             ft' = [ft EXCEPT ![t].pc = "c_ww_fini", ![t].ret = e,
                              ![t].mig = NoMigration]
        /\ UNCHANGED pages_pin
  /\ GSame({"ft", "pages_pin"})

\* err = remap_io_sg(area, vm_start, vm_size, pg->mm.pages->sgl, obj_offset, iomap);
CpuRemap(t) ==
  /\ ft[t].pc = "c_remap"
  /\ \/ /\ cpu_ptes' = TRUE
        /\ ft' = [ft EXCEPT ![t].pc = "c_unpin", ![t].ret = "0"]
     \/ /\ ft' = [ft EXCEPT ![t].pc = "c_unpin", ![t].ret = "ENOMEM"]
        /\ UNCHANGED cpu_ptes
  /\ GSame({"ft", "cpu_ptes"})

\* i915_gem_object_unpin_pages(pg);
CpuUnpin(t) ==
  /\ ft[t].pc = "c_unpin"
  /\ pages_pin' = [pages_pin EXCEPT ![ft[t].pg] = @ - 1]
  /\ ft' = [ft EXCEPT ![t].pc = "c_ww_fini"]
  /\ GSame({"ft", "pages_pin"})

\* The step of for_i915_gem_ww: on -EDEADLK i915_gem_ww_ctx_backoff() and, when
\* that succeeds, the body again; otherwise i915_gem_ww_ctx_fini() and the
\* loop ends.
CpuWwFini(t) ==
  /\ ft[t].pc = "c_ww_fini"
  /\ resv' = WwUnlock(t)
  /\ IF ft[t].ret = "EDEADLK"
     THEN \/ ft' = [ft EXCEPT ![t].pc = "c_lock", ![t].ret = "0",
                              ![t].other = TRUE, ![t].mig = NoMigration]
          \/ ft' = [ft EXCEPT ![t].pc = "c_while", ![t].ret = "EINTR",
                              ![t].other = FALSE, ![t].mig = NoMigration]
     ELSE ft' = [ft EXCEPT ![t].pc = "c_while", ![t].other = FALSE,
                           ![t].mig = NoMigration]
  /\ GSame({"ft", "resv"})

\* } while (err == -ENXIO || err == -ENOMEM); ret = i915_error_to_vmf_fault(err);
cpu_retry_only_enxio(err) == err = "ENXIO"
cpu_retry_also_eio(err) == err \in {"ENXIO", "ENOMEM", "EIO"}
cpu_retry(err) == err \in {"ENXIO", "ENOMEM"}

CpuWhile(t) ==
  /\ ft[t].pc = "c_while"
  /\ ft' = [ft EXCEPT ![t] =
              IF cpu_retry(ft[t].ret)
              THEN [ft[t] EXCEPT !.pc = "c_lock"]
              ELSE [ft[t] EXCEPT !.pc = "c_out",
                                 !.out = i915_error_to_vmf_fault(-Errno(ft[t].ret))]]
  /\ GSame({"ft"})

\* out: if (atomic_dec_and_test(&i915->active_fault_handlers)) wake_up_var();
\*      return ret;
CpuOut(t) ==
  /\ ft[t].pc = "c_out"
  /\ active_fault_handlers' = active_fault_handlers - 1
  /\ ft' = [ft EXCEPT ![t].pc = "done"]
  /\ GSame({"ft", "active_fault_handlers"})

\* Another context takes the object's reservation lock, and drops it.
ResvLock ==
  /\ resv = NoOwner
  /\ resv' = OtherOwner
  /\ GSame({"resv"})

ResvUnlock ==
  /\ resv = OtherOwner
  /\ resv' = NoOwner
  /\ GSame({"resv"})

\* The fault has returned to the mm; the thread may fault again.
FaultDone(t) ==
  /\ ft[t].pc = "done"
  /\ ft' = [ft EXCEPT ![t] = FIdle]
  /\ GSame({"ft"})

\* i915_vma_revoke_mmap(vma), for a vma with userfault set: the vma's range is
\* unmapped, the flag cleared, and the object unlinked when
\* --obj->userfault_count reaches 0. Nothing happens to other vma.
RevokedVma(v) == [vma EXCEPT ![v].userfault = FALSE]
RevokedPtes(v) == IF vma[v].userfault THEN ptes \ ViewPages(v) ELSE ptes
RevokedCount(v) ==
  IF vma[v].userfault THEN userfault_count - 1 ELSE userfault_count
RevokedList(v) ==
  IF vma[v].userfault /\ userfault_count - 1 = 0 /\ userfault_list # <<>>
  THEN Tail(userfault_list) ELSE userfault_list

\* i915_gem_object_release_mmap_gtt() is entered:
\* wakeref = intel_runtime_pm_get(); mutex_lock(&ggtt->vm.mutex);
ReleaseLock ==
  /\ rv.pc = "idle"
  /\ vm_mutex = NoOwner
  /\ vm_mutex' = "rv"
  /\ wakerefs' = wakerefs + 1
  /\ rv' = [RIdle EXCEPT !.pc = "check", !.old = ptes]
  /\ GSame({"rv", "vm_mutex", "wakerefs"})

\* if (!obj->userfault_count) goto out;
release_skips_never(count) == FALSE
release_skips(count) == count = 0

\* for_each_ggtt_vma(vma, obj): the vma the loop visits.
release_vmas_first_only == {FullView}
release_vmas == GViews

\* if (!obj->userfault_count) goto out; and the head of
\* __i915_gem_object_release_mmap_gtt(): GEM_BUG_ON(!obj->userfault_count);
ReleaseCheck ==
  /\ rv.pc = "check"
  /\ IF release_skips(userfault_count)
     THEN /\ rv' = [rv EXCEPT !.pc = "out", !.n0 = userfault_count]
          /\ UNCHANGED gbug
     ELSE /\ rv' = [rv EXCEPT !.pc = "loop", !.n0 = userfault_count,
                              !.todo = release_vmas]
          /\ gbug' = (gbug \/ userfault_count = 0)
  /\ GSame({"rv", "gbug"})

\* The vma the loop visits next: the list is walked front to back.
NextVma(todo) ==
  CHOOSE v \in todo : \A w \in todo :
    \/ v.type = "NORMAL"
    \/ w.type # "NORMAL" /\ v.offset <= w.offset

\* for_each_ggtt_vma(vma, obj) i915_vma_revoke_mmap(vma);
ReleaseRevoke ==
  /\ rv.pc = "loop"
  /\ rv.todo # {}
  /\ LET v == NextVma(rv.todo) IN
       /\ vma' = RevokedVma(v)
       /\ ptes' = RevokedPtes(v)
       /\ userfault_count' = RevokedCount(v)
       /\ userfault_list' = RevokedList(v)
       /\ gbug' = (gbug \/ (vma[v].userfault /\ userfault_count = 0))
       /\ rv' = [rv EXCEPT !.todo = @ \ {v}, !.old = @ \cap RevokedPtes(v)]
  /\ GSame({"rv", "vma", "ptes", "userfault", "gbug"})

\* The end of __i915_gem_object_release_mmap_gtt():
\* GEM_BUG_ON(obj->userfault_count); then wmb();
ReleaseLoopEnd ==
  /\ rv.pc = "loop"
  /\ rv.todo = {}
  /\ gbug' = (gbug \/ userfault_count # 0)
  /\ rv' = [rv EXCEPT !.pc = "out"]
  /\ GSame({"rv", "gbug"})

\* out: mutex_unlock(&ggtt->vm.mutex); intel_runtime_pm_put(); and the return.
ReleaseUnlock ==
  /\ rv.pc = "out"
  /\ vm_mutex' = NoOwner
  /\ wakerefs' = wakerefs - 1
  /\ rv' = RIdle
  /\ GSame({"rv", "vm_mutex", "wakerefs"})

\* A vma that nobody pins is moved out of the aperture (eviction, loss of its
\* fence): under vm.mutex its mmap is revoked and the vma unbound.
Evict(v) ==
  /\ vm_mutex = NoOwner
  /\ vma[v].bound
  /\ vma[v].pin = 0
  /\ vma' = [RevokedVma(v) EXCEPT ![v].bound = FALSE]
  /\ ptes' = RevokedPtes(v)
  /\ userfault_count' = RevokedCount(v)
  /\ userfault_list' = RevokedList(v)
  /\ GSame({"vma", "ptes", "userfault"})

GttNext ==
  \E t \in FThreads :
    \/ GttFault(t)
    \/ GttLock(t)
    \/ GttReadonly(t)
    \/ GttPinPages(t)
    \/ GttResetLock(t)
    \/ GttPin(t)
    \/ GttPinPartial(t)
    \/ GttPinSearch(t)
    \/ GttCache(t)
    \/ GttFence(t)
    \/ GttRemap(t)
    \/ GttMarkLock(t)
    \/ GttMarkSet(t)
    \/ GttMarkCount(t)
    \/ GttMarkList(t)
    \/ GttMarkUnlock(t)
    \/ GttErrFence(t)
    \/ GttErrUnpin(t)
    \/ GttErrReset(t)
    \/ GttErrPages(t)
    \/ GttBackoff(t)
    \/ GttReturn(t)
    \/ FaultDone(t)

ReleaseNext ==
  \/ ReleaseLock
  \/ ReleaseCheck
  \/ ReleaseRevoke
  \/ ReleaseLoopEnd
  \/ ReleaseUnlock

EvictNext == \E v \in GViews : Evict(v)

CpuNext ==
  \E t \in FThreads :
    \/ CpuFault(t)
    \/ CpuFlag(t)
    \/ CpuSegment(t)
    \/ CpuLock(t)
    \/ CpuSwapto(t)
    \/ CpuMigrate(t)
    \/ CpuPinPages(t)
    \/ CpuRemap(t)
    \/ CpuUnpin(t)
    \/ CpuWwFini(t)
    \/ CpuWhile(t)
    \/ CpuOut(t)

ResvNext == ResvLock \/ ResvUnlock

\* The invalidation of the lmem mmaps of the device, of which this file has
\* only the handler's side: the invalidator sets i915->invalidate_lmem_mmaps,
\* waits for i915->active_fault_handlers to be 0 (wait_var_event, woken by
\* the wake_up_var of the last handler), unmaps, and clears the flag.
ISame ==
  /\ UNCHANGED <<readonly, resv, pages_pin, swapto, active_fault_handlers,
                 reset_srcu, wakerefs, vma, ptes, userfault_count,
                 userfault_list, vm_mutex, gbug, ft, rv>>
  /\ UNCHANGED GOthers

InvalidateSet ==
  /\ iv = "idle"
  /\ invalidate_lmem_mmaps' = TRUE
  /\ iv' = "wait"
  /\ UNCHANGED cpu_ptes
  /\ ISame

InvalidateWait ==
  /\ iv = "wait"
  /\ active_fault_handlers = 0
  /\ iv' = "unmap"
  /\ UNCHANGED <<invalidate_lmem_mmaps, cpu_ptes>>
  /\ ISame

InvalidateUnmap ==
  /\ iv = "unmap"
  /\ cpu_ptes' = FALSE
  /\ iv' = "clear"
  /\ UNCHANGED invalidate_lmem_mmaps
  /\ ISame

InvalidateClear ==
  /\ iv = "clear"
  /\ invalidate_lmem_mmaps' = FALSE
  /\ iv' = "idle"
  /\ UNCHANGED cpu_ptes
  /\ ISame

InvalidateNext ==
  \/ InvalidateSet
  \/ InvalidateWait
  \/ InvalidateUnmap
  \/ InvalidateClear

INext == CpuNext \/ ResvNext \/ InvalidateNext

\* The GTT fault handler against the revocation of the object's GTT mmaps.
(***************************************************************************)
(* Part 5: i915_gem_object_release_mmap_offset.                            *)
(***************************************************************************)

\* The objects the function is called on: the object of the registry, a
\* segment of it, and a segment whose parent is gone (obj->parent == NULL).
RelObjs == Objs \cup {"segment", "orphan"}
RelTypes == {"GTT", "WC", "WB"}
NoObj == "none"
i915_gem_object_is_segment(o) == o \in {"segment", "orphan"}
obj_parent(o) == IF o = "segment" THEN "o1" ELSE NoObj
\* obj->segment_offset and obj->base.size, in pages: the segment is what
\* follows the first page of its parent.
segment_offset(o) == IF o = "segment" THEN 1 ELSE 0
base_size(o) ==
  IF i915_gem_object_is_segment(o) THEN ObjPages("o1") - 1 ELSE ObjPages(o)

\* pc and locals of the call: the object it was called on (arg), obj,
\* vma_offset, unmap_size, the mmo the rb-tree walk has not visited yet (todo)
\* and the PTEs there were when the call began (old).
RelIdle == [pc |-> "idle", arg |-> NoObj, obj |-> NoObj, vma_offset |-> 0,
            unmap_size |-> 0, todo |-> {}, old |-> {}]

\* The pages [start, start + pages) of the offset space.
PageRange(start, pages) == start..(start + pages - 1)

\* drm_vma_node_unmap_range(&mmo->vma_node, mapping, offset, length):
\* unmap_mapping_range(mapping, drm_vma_node_offset_addr(node) + offset,
\* length, 1) drops the PTEs of these pages in every user mapping.
drm_vma_node_unmap_range(m, offset, length) ==
  {p \in mapping_ptes :
     ~(NodeStart(m) + offset <= p /\ p < NodeStart(m) + offset + length)}

\* if (mmo->mmap_type == I915_MMAP_TYPE_GTT) continue;
offset_release_skips_none(m) == FALSE
offset_release_skips(m) == heap[m].mmap_type = "GTT"

\* The registry of the object holds up to two mmo, of different types, at
\* the offsets the allocator gave them; PTEs exist in the ranges of the
\* allocated nodes only.
MInit ==
  /\ \E t1 \in RelTypes \cup {"none"}, t2 \in RelTypes \cup {"none"} :
       LET used == {k \in {1, 2} : (IF k = 1 THEN t1 ELSE t2) # "none"} IN
       /\ t1 # "none" => t1 # t2
       /\ offsets = [o \in Objs |-> used]
       /\ heap = [m \in MmoIds |->
                    IF m \in used
                    THEN [obj |-> "o1",
                          mmap_type |-> IF m = 1 THEN t1 ELSE t2,
                          vm_files |-> {}]
                    ELSE NoMmo]
       /\ nodes = {[mmo |-> m, start |-> (m - 1) * ObjPages("o1"),
                    pages |-> ObjPages("o1")] : m \in used}
  /\ freed = {}
  /\ at = [t \in AThreads |-> AIdle]
  /\ abug = FALSE
  /\ mapping_ptes \in SUBSET (UNION {PageRange(n.start, n.pages) : n \in nodes})
  /\ ro = RelIdle

MQuiet ==
  /\ mapping_ptes = {}
  /\ ro = RelIdle

\* i915_gem_object_release_mmap_offset(obj) is entered:
\* unmap_size = obj->base.size; vma_offset = 0;
\* if (i915_gem_object_is_segment(obj)) { if (!obj->parent) return;
\*         vma_offset = obj->segment_offset; obj = obj->parent; }
OffsetReleaseCall ==
  /\ ro.pc = "idle"
  /\ \E o \in RelObjs :
       ro' = IF i915_gem_object_is_segment(o) /\ obj_parent(o) = NoObj
             THEN [RelIdle EXCEPT !.pc = "done", !.arg = o,
                                  !.old = mapping_ptes]
             ELSE LET obj == IF i915_gem_object_is_segment(o)
                             THEN obj_parent(o) ELSE o IN
                  [RelIdle EXCEPT !.pc = "walk", !.arg = o, !.obj = obj,
                                  !.vma_offset = segment_offset(o),
                                  !.unmap_size = base_size(o),
                                  !.todo = offsets[obj],
                                  !.old = mapping_ptes]
  /\ UNCHANGED <<mapping_ptes, avars>>
  /\ UNCHANGED MOthers

\* One round of rbtree_postorder_for_each_entry_safe(mmo, mn, ...): a GTT mmo
\* is passed over, the range of any other is unmapped.
OffsetReleaseStep ==
  /\ ro.pc = "walk"
  /\ \E mmo \in ro.todo :
       /\ ro' = [ro EXCEPT !.todo = @ \ {mmo}]
       /\ mapping_ptes' =
            IF offset_release_skips(mmo) THEN mapping_ptes
            ELSE drm_vma_node_unmap_range(mmo, ro.vma_offset, ro.unmap_size)
  /\ UNCHANGED avars
  /\ UNCHANGED MOthers

\* The walk is over: spin_unlock(&obj->mmo.lock); and the function returns.
OffsetReleaseReturn ==
  /\ ro.pc = "walk"
  /\ ro.todo = {}
  /\ ro' = [ro EXCEPT !.pc = "done"]
  /\ UNCHANGED <<mapping_ptes, avars>>
  /\ UNCHANGED MOthers

\* The caller goes on; the function may be called again.
OffsetReleaseDone ==
  /\ ro.pc = "done"
  /\ ro' = RelIdle
  /\ UNCHANGED <<mapping_ptes, avars>>
  /\ UNCHANGED MOthers

\* A fault through a user mapping of an mmo sets a PTE in its range.
OffsetFault ==
  /\ ro.pc = "idle"
  /\ \E n \in nodes, p \in 0..(AddrPages - 1) :
       /\ p \in PageRange(n.start, n.pages)
       /\ p \notin mapping_ptes
       /\ mapping_ptes' = mapping_ptes \cup {p}
  /\ UNCHANGED <<ro, avars>>
  /\ UNCHANGED MOthers

MNext ==
  \/ OffsetReleaseCall
  \/ OffsetReleaseStep
  \/ OffsetReleaseReturn
  \/ OffsetReleaseDone
  \/ OffsetFault

(***************************************************************************)
(* Part 6: the window vm_fault_cpu populates for a fault on a segmented    *)
(* object (lines 332-354), as a function of the area and of the segments.  *)
(***************************************************************************)

\* 1 << PAGE_SHIFT
PAGE_SIZE == 4096
\* Largest object, in pages, and largest start of the area, in pages.
MaxSegObjPages == 3
MaxAreaStart == 2

NoSegment == [segment_offset |-> -1, size |-> 0]
NoWindow == [ret |-> "none", vm_start |-> 0, vm_size |-> 0, obj_offset |-> 0,
             obj |-> NoSegment]

\* The segments an object may have: obj->segment_offset and obj->base.size of
\* each, in bytes; no two overlap, and some offsets may have no segment.
SegmentsOf(pages) ==
  {[segment_offset |-> o * PAGE_SIZE, size |-> z * PAGE_SIZE] :
     o \in 0..(pages - 1), z \in 1..pages} 
SegOverlap(a, b) ==
  /\ a.segment_offset < b.segment_offset + b.size
  /\ b.segment_offset < a.segment_offset + a.size
SegLayouts(pages) ==
  {L \in SUBSET {g \in SegmentsOf(pages) :
                   g.segment_offset + g.size <= pages * PAGE_SIZE} :
     /\ Cardinality(L) <= 2
     /\ \A a \in L, b \in L : a # b => ~SegOverlap(a, b)}

\* i915_gem_object_lookup_segment(obj, offset, NULL): the segment that holds
\* the byte at offset, or NULL.
i915_gem_object_lookup_segment(segments, offset) ==
  IF \E g \in segments :
       g.segment_offset <= offset /\ offset < g.segment_offset + g.size
  THEN CHOOSE g \in segments :
         g.segment_offset <= offset /\ offset < g.segment_offset + g.size
  ELSE NoSegment

\* vm_size = min(area->vm_end, vm_start + vm_size);
window_end_unclamped(vm_end, end) == end
window_end(vm_end, end) == IF vm_end < end THEN vm_end ELSE end

\* Lines 332-354 of vm_fault_cpu: vm_start, vm_size and obj_offset as
\* remap_io_sg gets them, or the VM_FAULT_SIGBUS of a fault no segment holds.
fault_window(i) ==
  IF ~i.has_segments
  THEN [ret |-> "remap", vm_start |-> i.vm_start,
        vm_size |-> i.vm_end - i.vm_start, obj_offset |-> i.obj_offset,
        obj |-> NoSegment]
  ELSE
    LET obj == i915_gem_object_lookup_segment(
                 i.segments, (i.obj_offset + i.page_offset) * PAGE_SIZE) IN
    IF obj = NoSegment
    THEN [NoWindow EXCEPT !.ret = "VM_FAULT_SIGBUS"]
    ELSE
      LET inside == i.obj_offset > obj.segment_offset \div PAGE_SIZE
          obj_offset == IF inside
                        THEN i.obj_offset - obj.segment_offset \div PAGE_SIZE
                        ELSE 0
          vm_start == IF inside THEN i.vm_start
                      ELSE i.vm_start + obj.segment_offset
                           - i.obj_offset * PAGE_SIZE
          vm_size == IF inside THEN obj.size - obj_offset * PAGE_SIZE
                     ELSE obj.size
          end == window_end(i.vm_end, vm_start + vm_size) IN
      [ret |-> "remap", vm_start |-> vm_start, vm_size |-> end - vm_start,
       obj_offset |-> obj_offset, obj |-> obj]

\* An area maps pages [obj_offset, obj_offset + length) of the object at
\* vm_start, and the fault is on one of its pages.
WinInputs ==
  {[has_segments |-> h, segments |-> L, vm_start |-> a * PAGE_SIZE,
    vm_end |-> (a + n) * PAGE_SIZE, obj_offset |-> o, page_offset |-> f] :
     h \in BOOLEAN, L \in SegLayouts(MaxSegObjPages), a \in 1..MaxAreaStart,
     n \in 1..MaxSegObjPages, o \in 0..(MaxSegObjPages - 1),
     f \in 0..(MaxSegObjPages - 1)}

WInit ==
  /\ win \in {i \in WinInputs :
                /\ i.obj_offset * PAGE_SIZE + (i.vm_end - i.vm_start)
                     <= MaxSegObjPages * PAGE_SIZE
                /\ i.page_offset * PAGE_SIZE < i.vm_end - i.vm_start
                /\ (~i.has_segments => i.segments = {})}
  /\ wout = NoWindow

WQuiet ==
  /\ win = [has_segments |-> FALSE, segments |-> {}, vm_start |-> PAGE_SIZE,
            vm_end |-> 2 * PAGE_SIZE, obj_offset |-> 0, page_offset |-> 0]
  /\ wout = NoWindow

\* vm_fault_cpu computes its window.
FaultWindow ==
  /\ wout = NoWindow
  /\ wout' = fault_window(win)
  /\ UNCHANGED win
  /\ UNCHANGED WOthers

WNext == FaultWindow

(***************************************************************************)
(* Part 7: i915_gem_mmap: the lookup of the offset, the allow-list of the  *)
(* node and the reference on the object.                                   *)
(***************************************************************************)

\* The vm_area_struct the model keeps at once.
MaxAreas == 2

NoNode == 0
MpIdle == [pc |-> "idle", filp |-> NoFile, vm_pgoff |-> 0, pages |-> 0,
           node |-> NoNode, mmo |-> NULL, obj |-> NoObj, ret |-> "none"]

\* drm_vma_offset_exact_lookup_locked(mgr, start, pages): the mmo whose node
\* starts at start and holds the pages, or none.
drm_vma_offset_exact_lookup_locked(start, pages) ==
  IF \E n \in nodes : n.start = start /\ pages <= n.pages /\ n.mmo \in MmoIds
  THEN (CHOOSE n \in nodes :
          n.start = start /\ pages <= n.pages /\ n.mmo \in MmoIds).mmo
  ELSE NoNode

\* drm_vma_node_is_allowed(node, priv): the tag is on the node's list.
drm_vma_node_is_allowed_anyone(m, tag) == TRUE
drm_vma_node_is_allowed(m, tag) == tag \in heap[m].vm_files

\* The object has two mmo, GTT and WB, in the offset space, nobody is on their
\* allow-lists yet, and one handle holds the only reference.
XInit ==
  /\ offsets = [o \in Objs |-> {1, 2}]
  /\ heap = [m \in MmoIds |->
               IF m \in {1, 2}
               THEN [obj |-> "o1", mmap_type |-> IF m = 1 THEN "GTT" ELSE "WB",
                     vm_files |-> {}]
               ELSE NoMmo]
  /\ nodes = {[mmo |-> m, start |-> (m - 1) * ObjPages("o1"),
               pages |-> ObjPages("o1")] : m \in {1, 2}}
  /\ freed = {}
  /\ at = [t \in AThreads |-> AIdle]
  /\ abug = FALSE
  /\ refcount = 1
  /\ handles = 1
  /\ areas = <<>>
  /\ mp = MpIdle

XQuiet ==
  /\ refcount = 1
  /\ handles = 1
  /\ areas = <<>>
  /\ mp = MpIdle

XSame == UNCHANGED <<freed, at, abug>> /\ UNCHANGED XOthers

\* The out: step of i915_gem_mmap_offset_attach(obj, mmap_type, file) of a
\* caller that holds a handle: vma_node_allow_once(&mmo->vma_node, file).
MmapAttachOut ==
  /\ handles > 0
  /\ \E m \in offsets["o1"], file \in Files, new_ok \in BOOLEAN :
       heap' = [heap EXCEPT ![m].vm_files =
                  vma_node_allow_once_files(m, file, new_ok)]
  /\ UNCHANGED <<offsets, nodes, refcount, handles, areas, mp>>
  /\ XSame

\* i915_gem_mmap(filp, vma), under rcu_read_lock and the lookup lock:
\* node = drm_vma_offset_exact_lookup_locked(mgr, vma->vm_pgoff, vma_pages(vma));
\* if (node && drm_vma_node_is_allowed(node, priv)) {
\*         mmo = container_of(node, ...); obj = i915_gem_object_get_rcu(mmo->obj); }
MmapLookup ==
  /\ mp.pc = "idle"
  /\ Len(areas) < MaxAreas
  /\ \E filp \in Files, vm_pgoff \in 0..(AddrPages - 1),
        pages \in 1..(ObjPages("o1") + 1) :
       LET node == drm_vma_offset_exact_lookup_locked(vm_pgoff, pages)
           allowed == node # NoNode /\ drm_vma_node_is_allowed(node, filp)
           got == allowed /\ refcount > 0 IN
       /\ mp' = [MpIdle EXCEPT !.pc = "looked", !.filp = filp,
                               !.vm_pgoff = vm_pgoff, !.pages = pages,
                               !.node = node,
                               !.mmo = IF allowed THEN node ELSE NULL,
                               !.obj = IF got THEN "o1" ELSE NoObj]
       /\ refcount' = IF got THEN refcount + 1 ELSE refcount
  /\ UNCHANGED <<offsets, heap, nodes, handles, areas>>
  /\ XSame

\* if (!obj) return node ? -EACCES : -EINVAL;
\* err = i915_gem_update_vma_info(obj, mmo, vma);
\* if (err) i915_gem_object_put(obj); return err;
MmapUpdate ==
  /\ mp.pc = "looked"
  /\ IF mp.obj = NoObj
     THEN /\ mp' = [mp EXCEPT !.pc = "done",
                              !.ret = IF mp.node # NoNode THEN "EACCES"
                                      ELSE "EINVAL"]
          /\ UNCHANGED <<refcount, areas>>
     ELSE \/ /\ areas' = Append(areas, [file |-> mp.filp, mmo |-> mp.mmo])
             /\ mp' = [mp EXCEPT !.pc = "done", !.ret = "0"]
             /\ UNCHANGED refcount
          \/ /\ \E err \in {"EINVAL", "ENOMEM"} :
                  mp' = [mp EXCEPT !.pc = "done", !.ret = err]
             /\ refcount' = refcount - 1
             /\ UNCHANGED areas
  /\ UNCHANGED <<offsets, heap, nodes, handles>>
  /\ XSame

\* i915_gem_mmap has returned.
MmapDone ==
  /\ mp.pc = "done"
  /\ mp' = MpIdle
  /\ UNCHANGED <<offsets, heap, nodes, refcount, handles, areas>>
  /\ XSame

\* vm_close(vma): i915_gem_object_put(obj).
VmClose ==
  /\ \E k \in 1..Len(areas) :
       areas' = SubSeq(areas, 1, k - 1) \o SubSeq(areas, k + 1, Len(areas))
  /\ refcount' = refcount - 1
  /\ UNCHANGED <<offsets, heap, nodes, handles, mp>>
  /\ XSame

\* The handle is closed and its reference put.
HandleClose ==
  /\ handles > 0
  /\ handles' = handles - 1
  /\ refcount' = refcount - 1
  /\ UNCHANGED <<offsets, heap, nodes, areas, mp>>
  /\ XSame

\* The object, its last reference gone, is freed: its nodes leave the offset
\* space and its mmo are freed.
ObjectFree ==
  /\ refcount = 0
  /\ offsets["o1"] # {}
  /\ nodes' = {n \in nodes : n.mmo \notin offsets["o1"]}
  /\ heap' = [m \in MmoIds |-> IF m \in offsets["o1"] THEN NoMmo ELSE heap[m]]
  /\ offsets' = [o \in Objs |-> {}]
  /\ UNCHANGED <<refcount, handles, areas, mp>>
  /\ XSame

XNext ==
  \/ MmapAttachOut
  \/ MmapLookup
  \/ MmapUpdate
  \/ MmapDone
  \/ VmClose
  \/ HandleClose
  \/ ObjectFree

(***************************************************************************)
(* Part 8: mmap_singleton and singleton_release: the anonymous file of the *)
(* device, looked up and created without a lock.                           *)
(***************************************************************************)

\* Number of files anon_inode_getfile creates in a run.
MaxSingletons == 3

NThreads == {"n1", "n2"}
AnonIds == 1..MaxSingletons
MsIdle == [pc |-> "idle", file |-> NULL]

\* get_file_rcu(file): atomic_long_inc_not_zero(&file->f_count)
get_file_rcu(count) == count > 0

\* cmpxchg(ptr, old, new): the value *ptr has afterwards.
cmpxchg_always(cur, old, new) == new
cmpxchg(cur, old, new) == IF cur = old THEN new ELSE cur

NInit ==
  /\ gem_mmap_singleton = NULL
  /\ anon_files = 0
  /\ f_count = [f \in AnonIds |-> 0]
  /\ released = {}
  /\ dev_refs = 0
  /\ ms = [t \in NThreads |-> MsIdle]

NQuiet ==
  /\ gem_mmap_singleton = NULL
  /\ anon_files = 0
  /\ f_count = [f \in AnonIds |-> 0]
  /\ released = {}
  /\ dev_refs = 0
  /\ ms = [t \in NThreads |-> MsIdle]

\* rcu_read_lock(); file = READ_ONCE(i915->gem.mmap_singleton);
MsRead(t) ==
  /\ ms[t].pc = "idle"
  /\ ms' = [ms EXCEPT ![t] = [pc |-> "get", file |-> gem_mmap_singleton]]
  /\ UNCHANGED <<gem_mmap_singleton, anon_files, f_count, released, dev_refs>>
  /\ UNCHANGED NOthers

\* if (file && !get_file_rcu(file)) file = NULL; rcu_read_unlock();
\* if (file) return file;
MsGet(t) ==
  /\ ms[t].pc = "get"
  /\ LET file == ms[t].file IN
       IF file # NULL /\ get_file_rcu(f_count[file])
       THEN /\ f_count' = [f_count EXCEPT ![file] = @ + 1]
            /\ ms' = [ms EXCEPT ![t].pc = "hold"]
       ELSE /\ ms' = [ms EXCEPT ![t] = [pc |-> "create", file |-> NULL]]
            /\ UNCHANGED f_count
  /\ UNCHANGED <<gem_mmap_singleton, anon_files, released, dev_refs>>
  /\ UNCHANGED NOthers

\* file = anon_inode_getfile(...); if (IS_ERR(file)) return file;
\* file->f_mapping = i915->drm.anon_inode->i_mapping;
MsCreate(t) ==
  /\ ms[t].pc = "create"
  /\ \E ok \in BOOLEAN :
       IF ok /\ anon_files < MaxSingletons
       THEN /\ anon_files' = anon_files + 1
            /\ f_count' = [f_count EXCEPT ![anon_files + 1] = 1]
            /\ ms' = [ms EXCEPT ![t] = [pc |-> "store", file |-> anon_files + 1]]
       ELSE /\ ms' = [ms EXCEPT ![t] = MsIdle]
            /\ UNCHANGED <<anon_files, f_count>>
  /\ UNCHANGED <<gem_mmap_singleton, released, dev_refs>>
  /\ UNCHANGED NOthers

\* smp_store_mb(i915->gem.mmap_singleton, file); drm_dev_get(); return file;
MsStore(t) ==
  /\ ms[t].pc = "store"
  /\ gem_mmap_singleton' = ms[t].file
  /\ dev_refs' = dev_refs + 1
  /\ ms' = [ms EXCEPT ![t].pc = "hold"]
  /\ UNCHANGED <<anon_files, f_count, released>>
  /\ UNCHANGED NOthers

\* fput(anon), by the caller of mmap_singleton or by the close of the area
\* that took the reference over.
MsFput(t) ==
  /\ ms[t].pc = "hold"
  /\ f_count' = [f_count EXCEPT ![ms[t].file] = @ - 1]
  /\ ms' = [ms EXCEPT ![t] = MsIdle]
  /\ UNCHANGED <<gem_mmap_singleton, anon_files, released, dev_refs>>
  /\ UNCHANGED NOthers

\* singleton_release(inode, file), called once f_count has dropped to zero:
\* cmpxchg(&i915->gem.mmap_singleton, file, NULL); drm_dev_put();
singleton_release(file) ==
  /\ file <= anon_files
  /\ f_count[file] = 0
  /\ file \notin released
  /\ gem_mmap_singleton' = cmpxchg(gem_mmap_singleton, file, NULL)
  /\ dev_refs' = dev_refs - 1
  /\ released' = released \cup {file}
  /\ UNCHANGED <<anon_files, f_count, ms>>
  /\ UNCHANGED NOthers

NNext ==
  \/ \E t \in NThreads : MsRead(t)
  \/ \E t \in NThreads : MsGet(t)
  \/ \E t \in NThreads : MsCreate(t)
  \/ \E t \in NThreads : MsStore(t)
  \/ \E t \in NThreads : MsFput(t)
  \/ \E file \in AnonIds : singleton_release(file)

FNext == GttNext \/ ReleaseNext \/ EvictNext

\* The faults of a thread through a GTT mmap and through a CPU mmap of the
\* object, while other contexts lock the object.
RNext == GttNext \/ CpuNext \/ ResvNext

\* Each specification starts one part of the model and leaves the state of
\* the other parts at rest.
Init == AInit /\ PQuiet /\ GQuiet /\ SQuiet /\ EInit /\ MQuiet /\ WQuiet /\ XQuiet /\ NQuiet
Spec == Init /\ [][ANext]_vars

InitPartial == PInit /\ AQuiet /\ GQuiet /\ SQuiet /\ EInit /\ MQuiet /\ WQuiet /\ XQuiet /\ NQuiet
SpecPartial == InitPartial /\ [][PNext]_vars

InitFault == GInit /\ AQuiet /\ PQuiet /\ SQuiet /\ EInit /\ MQuiet /\ WQuiet /\ XQuiet /\ NQuiet
SpecFault == InitFault /\ [][FNext]_vars

InitResolve == RInit /\ AQuiet /\ PQuiet /\ SQuiet /\ EInit /\ MQuiet /\ WQuiet /\ XQuiet /\ NQuiet
SpecResolve == InitResolve /\ [][RNext]_vars

InitSwap == SInit /\ AQuiet /\ PQuiet /\ GQuiet /\ EInit /\ MQuiet /\ WQuiet /\ XQuiet /\ NQuiet
SpecSwap == InitSwap /\ [][SNext]_vars

InitError == EInit /\ AQuiet /\ PQuiet /\ GQuiet /\ SQuiet /\ MQuiet /\ WQuiet /\ XQuiet /\ NQuiet
SpecError == InitError /\ [][ENext]_vars

InitRelease == MInit /\ PQuiet /\ GQuiet /\ SQuiet /\ EInit /\ WQuiet /\ XQuiet /\ NQuiet
SpecRelease == InitRelease /\ [][MNext]_vars

InitWindow == WInit /\ AQuiet /\ PQuiet /\ GQuiet /\ SQuiet /\ EInit /\ MQuiet /\ XQuiet /\ NQuiet
SpecWindow == InitWindow /\ [][WNext]_vars

InitInvalidate == GInit /\ AQuiet /\ PQuiet /\ SQuiet /\ EInit /\ MQuiet /\ WQuiet /\ XQuiet /\ NQuiet
SpecInvalidate == InitInvalidate /\ [][INext]_vars

InitSingleton == NInit /\ AQuiet /\ PQuiet /\ GQuiet /\ SQuiet /\ EInit /\ MQuiet /\ WQuiet /\ XQuiet
SpecSingleton == InitSingleton /\ [][NNext]_vars

InitMmap == XInit /\ PQuiet /\ GQuiet /\ SQuiet /\ EInit /\ MQuiet /\ WQuiet /\ NQuiet
SpecMmap == InitMmap /\ [][XNext]_vars

(***************************************************************************)
(* Properties of mmap_singleton and singleton_release.                     *)
(***************************************************************************)

\* The files some thread holds a reference of, from mmap_singleton.
MsHeld == {ms[t].file : t \in {u \in NThreads : ms[u].pc \in {"store", "hold"}}}

\* C27: i915->gem.mmap_singleton is NULL or a file singleton_release has not
\* returned for; a file mmap_singleton has returned has a reference count
\* above zero and is not released; and a step of singleton_release for a
\* file leaves the pointer alone unless it designates that file, which it
\* then clears.
C27_SingletonLive ==
  /\ [](/\ gem_mmap_singleton = NULL \/ gem_mmap_singleton \notin released
        /\ \A file \in MsHeld : f_count[file] > 0 /\ file \notin released)
  /\ [][/\ \A file \in released' \ released :
             gem_mmap_singleton' =
               IF gem_mmap_singleton = file THEN NULL ELSE gem_mmap_singleton
        /\ \A t \in NThreads :
             (ms[t].pc = "get" /\ ms'[t].pc = "hold") =>
               /\ f_count[ms'[t].file] > 0
               /\ ms'[t].file \notin released]_vars

\* A file that lost the race for the pointer has been released while the
\* pointer designates a newer file, which two threads hold: one of them got
\* it from the pointer.
C27_Witness ==
  /\ gem_mmap_singleton # NULL
  /\ \E file \in released : file # gem_mmap_singleton
  /\ f_count[gem_mmap_singleton] = 2
  /\ \A t \in NThreads :
       ms[t].pc = "hold" /\ ms[t].file = gem_mmap_singleton

(***************************************************************************)
(* Properties of i915_gem_object_release_mmap_offset.                      *)
(***************************************************************************)

\* The pages the call on object o has to unmap: of every mmo of the object
\* that is not of type GTT the whole range, and for a segment the pages of
\* the segment in every such mmo of its parent; none for an orphan segment.
OffsetTargets(o) ==
  LET owner == IF i915_gem_object_is_segment(o) THEN obj_parent(o) ELSE o IN
  IF owner = NoObj THEN {}
  ELSE UNION {PageRange(NodeStart(m) + segment_offset(o), base_size(o)) :
                m \in {k \in offsets[owner] : heap[k].mmap_type # "GTT"}}
GttPages ==
  UNION {PageRange(NodeStart(m), ObjPages(heap[m].obj)) :
           m \in {k \in offsets["o1"] : heap[k].mmap_type = "GTT"}}

\* C17: i915_gem_object_release_mmap_offset changes neither the records of
\* the registry nor their offsets; no step of it drops a PTE in the range of
\* a GTT record; and when it returns, the PTEs that are left are those there
\* were at the call, less the ranges of all records that are not GTT, each
\* narrowed to the pages of the segment when the call is on a segment, and
\* less nothing when the segment has no parent.
C17_OffsetRelease ==
  [][/\ offsets' = offsets /\ heap' = heap /\ nodes' = nodes
     /\ ro.pc # "idle" =>
          mapping_ptes' \cap GttPages = mapping_ptes \cap GttPages
     /\ ro'.pc = "done" =>
          mapping_ptes' = ro'.old \ OffsetTargets(ro'.arg)]_vars

\* The call on a segment has returned: it dropped a PTE of the segment's page
\* and left one of another page of the same record and one of a GTT record.
C17_Witness ==
  /\ ro.pc = "done" /\ ro.arg = "segment"
  /\ mapping_ptes # ro.old
  /\ mapping_ptes \cap GttPages # {}
  /\ \E m \in offsets["o1"] :
       /\ heap[m].mmap_type # "GTT"
       /\ NodeStart(m) \in mapping_ptes

(***************************************************************************)
(* Properties of the fault window of vm_fault_cpu.                         *)
(***************************************************************************)

\* The address of the fault and the offset in the object of an address of
\* the area.
WinAddress == win.vm_start + win.page_offset * PAGE_SIZE
WinObjectOffset(addr) == win.obj_offset * PAGE_SIZE + (addr - win.vm_start)
WinCovered ==
  \E g \in win.segments :
    /\ g.segment_offset <= WinObjectOffset(WinAddress)
    /\ WinObjectOffset(WinAddress) < g.segment_offset + g.size

\* C22: for a fault on a segmented object, when no segment holds the offset
\* of the fault the result is VM_FAULT_SIGBUS and nothing is populated;
\* otherwise the window [vm_start, vm_start + vm_size) holds the address of
\* the fault, lies inside [area->vm_start, area->vm_end), maps only offsets
\* of the one segment that holds the fault, and obj_offset is the page of
\* that segment that vm_start maps, whether the area starts before, at or
\* inside the segment.
C22_SegmentWindow ==
  (wout # NoWindow /\ win.has_segments) =>
    IF ~WinCovered
    THEN wout.ret = "VM_FAULT_SIGBUS" /\ wout.vm_size = 0
    ELSE /\ wout.ret = "remap"
         /\ wout.obj \in win.segments
         /\ wout.obj.segment_offset <= WinObjectOffset(WinAddress)
         /\ WinObjectOffset(WinAddress) < wout.obj.segment_offset + wout.obj.size
         /\ wout.vm_start <= WinAddress
         /\ WinAddress < wout.vm_start + wout.vm_size
         /\ win.vm_start <= wout.vm_start
         /\ wout.vm_start + wout.vm_size <= win.vm_end
         /\ wout.obj.segment_offset <= WinObjectOffset(wout.vm_start)
         /\ WinObjectOffset(wout.vm_start + wout.vm_size)
              <= wout.obj.segment_offset + wout.obj.size
         /\ wout.obj_offset * PAGE_SIZE =
              WinObjectOffset(wout.vm_start) - wout.obj.segment_offset

\* The area starts inside a segment and runs past its end: the window is
\* cut at the end of the segment and starts at a later page of the segment.
C22_Witness ==
  /\ wout # NoWindow /\ win.has_segments /\ WinCovered
  /\ wout.obj_offset > 0
  /\ wout.vm_start = win.vm_start
  /\ wout.vm_start + wout.vm_size < win.vm_end

(***************************************************************************)
(* Properties of i915_gem_mmap.                                            *)
(***************************************************************************)

AReturned(t) == at[t].pc = "done"
AReturnedOk(t) == at[t].pc = "done" /\ at[t].ret = "ok"
AllReturned == \A t \in AThreads : at[t].pc \in {"idle", "done"}
LiveNodes == {n \in nodes : n.mmo \notin freed}
AllMmo == UNION {offsets[o] : o \in Objs}

\* Two calls on the same (obj, mmap_type) that both began before the object
\* had such an mmo and that have both returned an mmo.
RacedOk(t1, t2, ty) ==
  /\ t1 # t2
  /\ AReturnedOk(t1) /\ AReturnedOk(t2)
  /\ at[t1].obj = at[t2].obj
  /\ at[t1].mmap_type = ty /\ at[t2].mmap_type = ty
  /\ at[t1].fresh /\ at[t2].fresh

\* C1: an object's tree never holds two mmo of the same mmap_type, and every
\* call that returns an mmo returns the one linked in the tree for its
\* (obj, mmap_type), with the offset of that mmo's node; two calls on the same
\* (obj, mmap_type) return the same offset.
C1_OneRecordPerKind ==
  /\ \A o \in Objs : \A m1, m2 \in offsets[o] :
       heap[m1].mmap_type = heap[m2].mmap_type => m1 = m2
  /\ \A t \in AThreads : AReturnedOk(t) =>
       /\ at[t].mmo \in offsets[at[t].obj]
       /\ heap[at[t].mmo].mmap_type = at[t].mmap_type
       /\ heap[at[t].mmo].obj = at[t].obj
       /\ at[t].off >= 0
       /\ \E n \in nodes : n.mmo = at[t].mmo /\ n.start = at[t].off
  /\ \A t1, t2 \in AThreads :
       (/\ AReturnedOk(t1) /\ AReturnedOk(t2)
        /\ at[t1].obj = at[t2].obj
        /\ at[t1].mmap_type = at[t2].mmap_type) => at[t1].off = at[t2].off

\* Two racing calls came back with the same mmo although both had allocated
\* one of their own.
C1_Witness ==
  \E t1, t2 \in AThreads :
    /\ RacedOk(t1, t2, "GTT")
    /\ at[t1].nok = 1 /\ at[t2].nok = 1
    /\ at[t1].lost # at[t2].lost

\* C2 as stated: two racing calls for WB return the same offset and only one
\* of their two drm_vma_offset_add calls succeeds.
C2_OnlyOneAllocationSucceeds ==
  \A t1, t2 \in AThreads : RacedOk(t1, t2, "WB") =>
    /\ at[t1].off = at[t2].off
    /\ at[t1].nok + at[t2].nok = 1

\* C2 as amended: two racing calls for WB that both return an mmo return the
\* same offset; one or both of their drm_vma_offset_add calls succeeded, and
\* once both have returned only the node of the linked mmo is left: the
\* allocator holds one node for that mmo and as many nodes as there are mmo.
C2_SameOffsetOneRegionLeft ==
  \A t1, t2 \in AThreads : RacedOk(t1, t2, "WB") =>
    /\ at[t1].off = at[t2].off
    /\ at[t1].mmo = at[t2].mmo
    /\ at[t1].nok + at[t2].nok \in {1, 2}
    /\ Cardinality({n \in nodes : n.mmo = at[t1].mmo}) = 1
    /\ Cardinality(LiveNodes) = Cardinality(AllMmo)

\* Both racing calls had a successful allocation.
C2_Witness ==
  \E t1, t2 \in AThreads :
    /\ RacedOk(t1, t2, "WB")
    /\ at[t1].nok = 1 /\ at[t2].nok = 1

\* C3: a call whose mmo lost in insert_mmo returns the linked mmo, and once
\* every call has returned each linked mmo has exactly one node and every
\* node belongs to a linked mmo (or to an object that waits for the reaping).
C3_LoserRegionRemoved ==
  /\ \A t \in AThreads : (AReturnedOk(t) /\ at[t].lost) =>
       /\ at[t].mmo \in offsets[at[t].obj]
       /\ heap[at[t].mmo].mmap_type = at[t].mmap_type
  /\ AllReturned =>
       /\ \A m \in AllMmo : Cardinality({n \in nodes : n.mmo = m}) = 1
       /\ \A n \in LiveNodes : n.mmo \in AllMmo
       /\ Cardinality(LiveNodes) = Cardinality(AllMmo)

\* Every call has returned and one of them lost the race after allocating.
C3_Witness ==
  /\ AllReturned
  /\ \E t \in AThreads : AReturnedOk(t) /\ at[t].lost /\ at[t].nok = 1

\* What C4 says of the attempts: at most two drm_vma_offset_add calls, the
\* reaping exactly after a failed first one, -ENOSPC when both fail.
C4_Attempts(t) ==
  /\ at[t].nadd <= 2
  /\ at[t].reaped => at[t].nadd - at[t].nok >= 1
  /\ (at[t].nadd - at[t].nok >= 1 /\ at[t].pc # "reap") => at[t].reaped
  /\ at[t].nadd = 2 => at[t].reaped
  /\ (AReturned(t) /\ at[t].nadd = 2 /\ at[t].nok = 0) =>
       at[t].ret = "err" /\ at[t].err = "ENOSPC" /\ at[t].errat = "add"

\* C4 as stated: the call succeeds whenever the retry succeeds.
C4_RetrySuccessIsCallSuccess ==
  \A t \in AThreads :
    /\ C4_Attempts(t)
    /\ (AReturned(t) /\ at[t].nadd = 2 /\ at[t].nok = 1) => at[t].ret = "ok"

\* C4 as amended: when the retry succeeds the call goes on to insert_mmo and
\* returns an mmo unless vma_node_allow_once then fails with -ENOMEM.
C4_RetryOnce ==
  \A t \in AThreads :
    /\ C4_Attempts(t)
    /\ (AReturned(t) /\ at[t].nadd = 2 /\ at[t].nok = 1) =>
         \/ at[t].ret = "ok"
         \/ at[t].ret = "err" /\ at[t].err = "ENOMEM" /\ at[t].errat = "allow"

\* One call succeeded on its retry, after the reaping, while another one
\* failed both attempts.
C4_Witness ==
  \E t1, t2 \in AThreads :
    /\ AReturnedOk(t1) /\ at[t1].nadd = 2 /\ at[t1].nok = 1 /\ at[t1].reaped
    /\ AReturned(t2) /\ at[t2].nadd = 2 /\ at[t2].nok = 0

\* The step of t in which i915_gem_mmap_offset_attach returns an error.
AttachFails(t) ==
  at[t].pc # "done" /\ at'[t].pc = "done" /\ at'[t].ret = "err"

\* The mmo of the call is one the call allocated a node for and linked itself.
AttachOwn(t) == at[t].mmo # NULL /\ at[t].nok = 1 /\ ~at[t].lost

\* The mmo is linked in the tree of the object and its node is allocated.
AttachLinked(o, m) ==
  /\ m \in offsets'[o]
  /\ \E n \in nodes' : n.mmo = m

\* C28: a call of i915_gem_mmap_offset_attach that returns an error has left
\* no mmo of its own in the tree of the object and no node of its own in the
\* offset manager, wherever it failed.
C28_ErrorLeavesNothing ==
  [][\A t \in AThreads :
       AttachFails(t) => ~(AttachOwn(t) /\ AttachLinked(at[t].obj, at[t].mmo))]_vars

\* C28, as the code has it: a call that fails in kmalloc has touched nothing;
\* one that fails in the second drm_vma_offset_add has allocated no node and
\* frees its mmo, which was never linked; one that fails in
\* vma_node_allow_once leaves the mmo linked and its node allocated, also
\* when the mmo is the one this call created, and the file is not allowed.
C28_ErrorEffects ==
  [][\A t \in AThreads :
       AttachFails(t) =>
         LET m == at[t].mmo
             o == at[t].obj IN
         /\ offsets' = offsets /\ nodes' = nodes
         /\ at'[t].errat \in {"kmalloc", "add", "allow"}
         /\ at'[t].errat = "kmalloc" =>
              /\ m = NULL /\ at[t].nadd = 0 /\ heap' = heap
         /\ at'[t].errat = "add" =>
              /\ at[t].nok = 0 /\ at'[t].nadd = 2 /\ at[t].reaped
              /\ m \notin offsets'[o]
              /\ \A n \in nodes' : n.mmo # m
              /\ heap'[m] = NoMmo
         /\ at'[t].errat = "allow" =>
              /\ AttachLinked(o, m)
              /\ heap'[m] = heap[m]
              /\ heap'[m].mmap_type = at[t].mmap_type
              /\ at[t].file # NoFile
              /\ at[t].file \notin heap'[m].vm_files]_vars

\* A call has created an mmo, allocated its node and linked it, and has then
\* returned the -ENOMEM of vma_node_allow_once: the mmo is still linked.
C28_Witness ==
  \E t \in AThreads :
    /\ at[t].pc = "done" /\ at[t].ret = "err" /\ at[t].errat = "allow"
    /\ at[t].nok = 1 /\ ~at[t].lost
    /\ lookup_mmo(at[t].obj, at[t].mmap_type) # NULL
    /\ \E n \in nodes : n.mmo = lookup_mmo(at[t].obj, at[t].mmap_type)
    /\ heap[lookup_mmo(at[t].obj, at[t].mmap_type)].vm_files = {}

(***************************************************************************)
(* Properties of the fault handlers and of the revocation.                 *)
(***************************************************************************)

FReturned(t) == ft[t].pc = "done"
\* A handler that has returned from a write fault on the read-only object.
WriteDeniedReturned(t) == FReturned(t) /\ readonly /\ ft[t].write
\* A step of the handler of a write fault on the read-only object.
WriteDeniedStep(t) ==
  readonly /\ (ft[t].write \/ ft'[t].write) /\ ft'[t] # ft[t]
\* What such a handler must leave alone: the PTEs of both mmaps, the page
\* pins, the vma (bindings, pins, fences, userfault flags), the userfault
\* bookkeeping and the shadow object.
WriteDeniedNoEffect ==
  \A t \in FThreads : WriteDeniedStep(t) =>
    UNCHANGED <<ptes, cpu_ptes, pages_pin, vma, userfault_count,
                userfault_list, swapto>>

\* C5 as stated: a write fault on a read-only object, in vm_fault_gtt or in
\* vm_fault_cpu, always returns VM_FAULT_SIGBUS, and populates no PTE, pins
\* no pages, binds no vma and leaves userfault_count as it is.
C5_WriteFaultAlwaysSigbus ==
  /\ [](\A t \in FThreads :
          WriteDeniedReturned(t) => ft[t].out = "VM_FAULT_SIGBUS")
  /\ [][WriteDeniedNoEffect]_vars

\* C5 as amended: such a fault populates no PTE, pins no pages, binds no vma
\* and leaves userfault_count as it is; vm_fault_cpu always returns
\* VM_FAULT_SIGBUS; vm_fault_gtt returns VM_FAULT_SIGBUS (-EFAULT) once it has
\* the object lock, and VM_FAULT_NOPAGE when the wait for the lock, which
\* comes before the check, is interrupted (-EINTR).
C5_WriteFaultDenied ==
  /\ [](\A t \in FThreads : WriteDeniedReturned(t) =>
          \/ ft[t].ops = "vm_ops_cpu" /\ ft[t].out = "VM_FAULT_SIGBUS"
          \/ /\ ft[t].ops = "vm_ops_gtt"
             /\ ft[t].ret = "EFAULT" /\ ft[t].out = "VM_FAULT_SIGBUS"
          \/ /\ ft[t].ops = "vm_ops_gtt"
             /\ ft[t].ret = "EINTR" /\ ft[t].out = "VM_FAULT_NOPAGE")
  /\ [][WriteDeniedNoEffect]_vars

\* vm_fault_gtt has refused a write fault on the read-only object, after the
\* object had been mapped by earlier read faults through both mmaps.
C5_Witness ==
  \E t \in FThreads :
    /\ WriteDeniedReturned(t)
    /\ ft[t].ops = "vm_ops_gtt" /\ ft[t].out = "VM_FAULT_SIGBUS"
    /\ ptes # {} /\ cpu_ptes

\* The resources of vm_fault_gtt in the order it acquires them.
GttOrder == <<"wakeref", "lock", "pages", "reset", "vma", "fence">>
Holds(t, r) == \E k \in 1..Len(ft[t].held) : ft[t].held[k] = r
Holders(r) == Cardinality({t \in FThreads : Holds(t, r)})
VmaPins == Cardinality({v \in GViews : vma[v].pin > 0})
VmaFences == Cardinality({v \in GViews : vma[v].fence > 0})
\* The vm_fault_cpu calls that hold a pin on the pages of the object.
CpuPins ==
  Cardinality({t \in FThreads : /\ ft[t].pc \in {"c_remap", "c_unpin"}
                                /\ ft[t].pg = "obj"})

\* C14: what vm_fault_gtt holds is at every moment a prefix of its order of
\* acquisition (wakeref, object lock, page pin, reset srcu, vma pin, fence
\* pin), so that every release is that of the resource acquired last and
\* nothing is released that was not acquired; the pin counts, the srcu
\* readers, the lock and the wakerefs are exactly those held; and nothing is
\* held when the handler returns, nothing but the wakeref when it restarts
\* after a backoff.
C14_ReverseUnwind ==
  /\ \A t \in FThreads :
       /\ Len(ft[t].held) <= Len(GttOrder)
       /\ ft[t].held = SubSeq(GttOrder, 1, Len(ft[t].held))
       /\ ft[t].pc \in {"idle", "done"} => ft[t].held = <<>>
       /\ ft[t].pc \in {"lock", "fini"} => ft[t].held = <<"wakeref">>
       /\ ft[t].ops = "vm_ops_gtt" => (Holds(t, "lock") <=> resv = t)
       /\ Holds(t, "vma") <=> ft[t].vma # NoVma
       /\ Holds(t, "vma") => vma[ft[t].vma].pin > 0
       /\ Holds(t, "fence") => vma[ft[t].vma].fence > 0
  /\ wakerefs = Holders("wakeref")
  /\ pages_pin["obj"] = Holders("pages") + CpuPins
  /\ reset_srcu = Holders("reset")
  /\ VmaPins = Holders("vma")
  /\ VmaFences = Holders("fence")
  /\ \A v \in GViews : vma[v].pin \in {0, 1} /\ vma[v].fence \in {0, 1}

\* vm_fault_gtt has returned from a fault it served: the vma is marked, the
\* PTEs are there and nothing is held any more.
C14_Witness ==
  \E t \in FThreads :
    /\ FReturned(t) /\ ft[t].ops = "vm_ops_gtt" /\ ft[t].ret = "0"
    /\ ptes # {} /\ userfault_count > 0
    /\ pages_pin["obj"] = 0 /\ reset_srcu = 0 /\ VmaPins = 0 /\ VmaFences = 0

GttUnwindLabels == {"err_fence", "err_unpin", "err_reset", "err_pages"}

\* C15: a vm_fault_gtt call that holds -EDEADLK does nothing but unwind: it
\* runs the release labels one after the other, each dropping one resource,
\* down to err_rpm; there the backoff drops the object lock and either takes
\* the contended lock and restarts at the lock step, holding neither pin nor
\* token nor the object lock (only the wakeref), or fails, and then the call
\* goes through fini to its return and never back to the lock step.  The lock
\* step is entered only from the start of the call and from a backoff, and
\* the bind only after the lock, the read-only check, the page pin and the
\* reset lock have been redone.
C15_DeadlockRestart ==
  [][\A t \in FThreads :
       ft[t].ops = "vm_ops_gtt" /\ ft'[t] # ft[t] =>
         /\ ft[t].ret = "EDEADLK" /\ ft[t].pc \in GttUnwindLabels =>
              /\ ft'[t].pc \in GttUnwindLabels \cup {"err_rpm"}
              /\ ft'[t].ret = "EDEADLK"
              /\ Len(ft'[t].held) = Len(ft[t].held) - 1
         /\ ft[t].ret = "EDEADLK" /\ ft[t].pc = "err_rpm" =>
              /\ resv' # t
              /\ ft'[t].held = <<"wakeref">>
              /\ ft'[t].vma = NoVma
              /\ \/ ft'[t].pc = "lock" /\ ft'[t].other /\ ft'[t].ret = "0"
                 \/ /\ ft'[t].pc = "fini" /\ ~ft'[t].other
                    /\ ft'[t].ret # "EDEADLK"
         /\ ft[t].ret = "EDEADLK" =>
              ft[t].pc \in GttUnwindLabels \cup {"err_rpm"}
         /\ ft[t].pc = "fini" => ft'[t].pc = "done"
         /\ ft'[t].pc = "lock" => ft[t].pc \in {"idle", "err_rpm"}
         /\ ft'[t].pc = "ro" => ft[t].pc = "lock"
         /\ ft'[t].pc = "pin_pages" => ft[t].pc = "ro"
         /\ ft'[t].pc = "reset_lock" => ft[t].pc = "pin_pages"
         /\ ft'[t].pc = "pin" => ft[t].pc = "reset_lock"]_vars

\* vm_fault_gtt is back at the lock step after a backoff: it holds the
\* contended lock and the wakeref, and nothing of the aborted attempt.
C15_Witness ==
  \E t \in FThreads :
    /\ ft[t].ops = "vm_ops_gtt" /\ ft[t].pc = "lock" /\ ft[t].other
    /\ resv # t /\ ft[t].held = <<"wakeref">>
    /\ pages_pin["obj"] = 0 /\ reset_srcu = 0 /\ VmaPins = 0

\* C16: in vm_fault_cpu, when i915_gem_object_should_migrate_smem() holds:
\* with required set and the pages of pg pinned the pass ends with -EFAULT,
\* the loop is left without another pass and the fault returns
\* VM_FAULT_SIGBUS, no page having been pinned and no PTE written on the
\* way; with required clear and the migration failed (pinned pages, or an
\* error other than -EDEADLK) the error is dropped and the handler goes on
\* to pin the pages of the same pg.
C16_MigrationOutcome ==
  [][\A t \in FThreads :
       ft[t].ops = "vm_ops_cpu" /\ ft'[t] # ft[t] =>
         /\ ft[t].pc = "c_migrate" =>
              /\ ft'[t].mig.pinned => ft'[t].mig.err = "EFAULT"
              /\ ft'[t].mig.kind = "required" /\ ft'[t].mig.pinned =>
                   /\ ft'[t].pc = "c_ww_fini" /\ ft'[t].ret = "EFAULT"
              /\ ( /\ ft'[t].mig.kind = "optional"
                   /\ ft'[t].mig.err \notin {"0", "EDEADLK"} ) =>
                   /\ ft'[t].pc = "c_pin_pages" /\ ft'[t].ret = "0"
                   /\ ft'[t].pg = ft[t].pg
              /\ ft'[t].ret = "EFAULT" => ft'[t].mig.pinned
         /\ ft[t].pc # "c_migrate" /\ ft'[t].ret = "EFAULT" =>
              /\ ft[t].ret = "EFAULT"
              /\ pages_pin' = pages_pin /\ cpu_ptes' = cpu_ptes
              /\ ft[t].pc = "c_ww_fini" => ft'[t].pc = "c_while"
              /\ ft[t].pc = "c_while" =>
                   ft'[t].pc = "c_out" /\ ft'[t].out = "VM_FAULT_SIGBUS"
              /\ ft[t].pc = "c_out" =>
                   ft'[t].pc = "done" /\ ft'[t].out = "VM_FAULT_SIGBUS"
              /\ ft[t].pc \in {"c_ww_fini", "c_while", "c_out"}
         /\ ft[t].pc = "c_pin_pages" /\ ft[t].mig.kind = "optional" =>
              \/ ft'[t].pc = "c_remap" /\ pages_pin'[ft[t].pg] > 0
              \/ ft'[t].pc = "c_ww_fini" /\ ft'[t].ret # "0"]_vars

\* vm_fault_cpu has returned VM_FAULT_SIGBUS from a required migration of
\* pinned pages, with no PTE written.
C16_Witness ==
  \E t \in FThreads :
    /\ ft[t].ops = "vm_ops_cpu" /\ ft[t].pc = "done"
    /\ ft[t].ret = "EFAULT" /\ ft[t].out = "VM_FAULT_SIGBUS"
    /\ ~cpu_ptes

GttMarkLabels == {"mark_set", "mark_count", "mark_list", "mark_unlock"}
UserfaultViews == {v \in GViews : vma[v].userfault}

\* C18: with no revocation, outside the marking section (vm.mutex free)
\* obj->userfault_count is the number of vma with the userfault flag, all of
\* them bound, and the object is on ggtt->userfault_list once if the count
\* is not 0 and not at all if it is.  The list only ever changes by the one
\* insertion that follows the increment from 0; the count only ever changes
\* by the increment that follows the setting of a flag that was clear; the
\* marking of a vma whose flag is set changes neither; and flags, count and
\* list change only in the marking section, which a handler enters with
\* ret = 0 after remap_io_mapping succeeded and leaves towards its return
\* with ret = 0, so a fault that returns an error has changed none of them.
C18_UserfaultAccounting ==
  [][/\ vm_mutex' = NoOwner =>
          /\ userfault_count' = Cardinality(UserfaultViews')
          /\ \A v \in UserfaultViews' : vma'[v].bound
          /\ userfault_list' = IF userfault_count' > 0 THEN <<"obj">> ELSE <<>>
     /\ userfault_list' # userfault_list =>
          /\ userfault_list = <<>> /\ userfault_list' = <<"obj">>
          /\ userfault_count' = 1
     /\ userfault_count' # userfault_count =>
          userfault_count' = userfault_count + 1
     /\ \A t \in FThreads :
          ft[t].ops = "vm_ops_gtt" /\ ft'[t] # ft[t] =>
            /\ ft[t].pc = "mark_set" /\ vma[ft[t].vma].userfault =>
                 /\ ft'[t].pc = "mark_unlock"
                 /\ UserfaultViews' = UserfaultViews
            /\ ft[t].pc = "mark_set" /\ ~vma[ft[t].vma].userfault =>
                 /\ ft'[t].pc = "mark_count"
                 /\ UserfaultViews' = UserfaultViews \cup {ft[t].vma}
            /\ ft[t].pc = "mark_count" =>
                 userfault_count' = userfault_count + 1
            /\ ft[t].pc \in GttMarkLabels \cup GttUnwindLabels \cup {"err_rpm"}
               /\ ft[t].ret = "0" => ft'[t].ret = "0"
            /\ ft'[t].pc \in GttMarkLabels =>
                 ft[t].pc \in GttMarkLabels \cup {"mark"} /\ ft[t].ret = "0"
            /\ ft'[t].pc = "mark" => ft[t].pc = "remap"
     /\ (\A t \in FThreads : ft[t].pc \notin GttMarkLabels) =>
          /\ userfault_count' = userfault_count
          /\ userfault_list' = userfault_list
          /\ UserfaultViews' = UserfaultViews]_vars

\* Successive faults have marked two views of the object and the last of
\* them has just left the marking section: the count is 2 and the object is
\* on the list once.
C18_Witness ==
  \E t \in FThreads :
    /\ ft[t].pc = "err_fence" /\ ft[t].ret = "0"
    /\ vm_mutex = NoOwner
    /\ userfault_count = 2 /\ Cardinality(UserfaultViews) = 2
    /\ userfault_list = <<"obj">>

GttPinLabels == {"pin", "pin2", "pin3"}

\* C19 as the claim has it: the partial view is tried three times, so the
\* second attempt with the view, when it fails with an error other than
\* -EDEADLK, is followed by one more and not by the end of the bind.
C19_ThreePartialAttempts ==
  [][\A t \in FThreads :
       ft[t].pc = "pin3" /\ ft'[t].pc = "err_reset" =>
         ft'[t].ret = "EDEADLK"]_vars

\* C19, amended: vm_fault_gtt binds in at most three attempts.  The first is
\* of the whole object (PIN_MAPPABLE | PIN_NONBLOCK | PIN_NOEVICT) and comes
\* after the reset lock; the view is computed and tried only after the first
\* failed with an error other than -EDEADLK, first with PIN_MAPPABLE |
\* PIN_NOSEARCH, which does not forbid eviction, and, only after that failed
\* with an error other than -EDEADLK, once more with PIN_MAPPABLE alone;
\* -EDEADLK from any attempt goes to err_reset at once, and so does any
\* error of the third attempt.  A bind that succeeds pins the whole object
\* in the first attempt and the view of the faulting page in the others.
C19_BindAttempts ==
  [][\A t \in FThreads :
       ft[t].ops = "vm_ops_gtt" /\ ft'[t] # ft[t] =>
         /\ ft'[t].pc = "pin" => ft[t].pc = "reset_lock"
         /\ ft'[t].pc = "pin2" =>
              /\ ft[t].pc = "pin" /\ ft'[t].vma = NoVma
              /\ ft'[t].view = PartialViewOf(ft[t].page)
         /\ ft'[t].pc = "pin3" =>
              /\ ft[t].pc = "pin2" /\ ft'[t].vma = NoVma
              /\ ft'[t].view = ft[t].view
         /\ ft[t].pc \in GttPinLabels =>
              /\ ft'[t].pc \in
                   {"cache", "err_reset"} \cup
                   (IF ft[t].pc = "pin" THEN {"pin2"}
                    ELSE IF ft[t].pc = "pin2" THEN {"pin3"} ELSE {})
              /\ ft'[t].pc = "err_reset" =>
                   /\ ft'[t].vma = NoVma
                   /\ IF ft[t].pc = "pin3" THEN ft'[t].ret # "0"
                      ELSE ft'[t].ret = "EDEADLK"
              /\ ft'[t].pc = "cache" =>
                   /\ vma'[ft'[t].vma].pin = vma[ft'[t].vma].pin + 1
                   /\ ft'[t].vma =
                        IF ft[t].pc = "pin" THEN FullView
                        ELSE [VmaOf(ft[t].view) EXCEPT !.type = "PARTIAL"]
         /\ "PIN_NOEVICT" \in GttPinFlags(ft[t].pc, ft[t].view) <=>
              ft[t].pc = "pin"
         /\ "PIN_NOSEARCH" \in GttPinFlags(ft[t].pc, ft[t].view) <=>
              ft[t].pc = "pin2"]_vars

\* The second attempt with the view has failed with an error other than
\* -EDEADLK and vm_fault_gtt is on its way out with that error, no vma pinned.
C19_Witness ==
  \E t \in FThreads :
    /\ ft[t].ops = "vm_ops_gtt" /\ ft[t].pc = "err_reset"
    /\ ft[t].ret = "EBUSY" /\ ft[t].view.type = "PARTIAL"
    /\ ft[t].vma = NoVma /\ VmaPins = 0

\* The vm_fault_cpu calls that hold a pin on the pages of target x.
CpuPinsOf(x) ==
  Cardinality({t \in FThreads : /\ ft[t].pc \in {"c_remap", "c_unpin"}
                                /\ ft[t].pg = x})

\* C21: in vm_fault_cpu a pin taken by i915_gem_object_pin_pages_sync is
\* followed by remap_io_sg and then, whatever remap_io_sg returned, by the
\* one i915_gem_object_unpin_pages, before the pass ends: the shadow's pages
\* are pinned exactly while a call is between the two, and so are the
\* object's (vm_fault_gtt's pin aside).  The unpin and everything after it
\* leave the PTEs that were set.  A new pass starts only from the backoff
\* after -EDEADLK or from the loop condition after -ENXIO or -ENOMEM; any
\* other err ends the loop.
C21_PinReleasedOnce ==
  [][/\ pages_pin'["swp"] = CpuPinsOf("swp")'
     /\ pages_pin'["obj"] = CpuPinsOf("obj")' + Holders("pages")'
     /\ \A t \in FThreads :
          ft[t].ops = "vm_ops_cpu" /\ ft'[t] # ft[t] =>
            /\ ft'[t].pc = "c_remap" =>
                 /\ ft[t].pc = "c_pin_pages"
                 /\ pages_pin'[ft[t].pg] = pages_pin[ft[t].pg] + 1
            /\ ft[t].pc = "c_remap" =>
                 /\ ft'[t].pc = "c_unpin" /\ pages_pin' = pages_pin
                 /\ cpu_ptes' = (cpu_ptes \/ ft'[t].ret = "0")
            /\ ft[t].pc = "c_unpin" =>
                 /\ ft'[t].pc = "c_ww_fini" /\ ft'[t].ret = ft[t].ret
                 /\ pages_pin'[ft[t].pg] = pages_pin[ft[t].pg] - 1
            /\ ft[t].pc # "c_remap" => cpu_ptes' = cpu_ptes
            /\ ft[t].pc \notin {"c_pin_pages", "c_unpin"} =>
                 pages_pin' = pages_pin
            /\ ft'[t].pc = "c_lock" =>
                 \/ ft[t].pc = "c_segment"
                 \/ ft[t].pc = "c_ww_fini" /\ ft[t].ret = "EDEADLK"
                 \/ ft[t].pc = "c_while" /\ ft[t].ret \in {"ENXIO", "ENOMEM"}
            /\ ft[t].pc = "c_while" /\ ft[t].ret \in {"ENXIO", "ENOMEM"} =>
                 ft'[t].pc = "c_lock"
            /\ ft[t].pc = "c_while" /\ ft[t].ret \notin {"ENXIO", "ENOMEM"} =>
                 ft'[t].pc = "c_out"
            /\ ft[t].pc = "c_ww_fini" /\ ft[t].ret # "EDEADLK" =>
                 ft'[t].pc = "c_while" /\ ft'[t].ret = ft[t].ret]_vars

\* vm_fault_cpu has returned from a pass that pinned and populated: the PTEs
\* are there and no pin is left.
C21_Witness ==
  \E t \in FThreads :
    /\ ft[t].ops = "vm_ops_cpu" /\ ft[t].pc = "done" /\ ft[t].ret = "0"
    /\ ft[t].out = "VM_FAULT_NOPAGE"
    /\ cpu_ptes /\ pages_pin["obj"] = 0 /\ pages_pin["swp"] = 0

\* The vm_fault_cpu calls between their atomic_inc and their atomic_dec.
CpuRegistered ==
  {t \in FThreads : /\ ft[t].ops = "vm_ops_cpu"
                    /\ ft[t].pc \notin {"idle", "done"}}
\* The invalidator has seen active_fault_handlers at 0 with the flag set.
InvalidateQuiesced == iv \in {"unmap", "clear"}

C25_NeverOom ==
  [][\A t \in FThreads :
       ft'[t].ops = "vm_ops_cpu" =>
         /\ ft'[t].out \in {"none", "VM_FAULT_NOPAGE", "VM_FAULT_SIGBUS"}
         /\ ft'[t].pc \in {"c_out", "done"} =>
              /\ ft'[t].out # "none"
              /\ ft'[t].ret \notin {"ENOMEM", "ENXIO"}
         /\ ( /\ ft[t].pc \in {"c_ww_fini", "c_while"}
              /\ ft[t].ret \in {"ENOMEM", "ENXIO"}
              /\ ft'[t] # ft[t] ) =>
              /\ ft'[t].pc \in {"c_while", "c_lock"}
              /\ ft'[t].out = "none"
              /\ ft'[t].ret = ft[t].ret]_vars

\* A pass of vm_fault_cpu has ended with -ENOMEM and the handler is at the
\* lock again instead of returning.
C25_Witness ==
  \E t \in FThreads :
    /\ ft[t].ops = "vm_ops_cpu" /\ ft[t].pc = "c_lock"
    /\ ft[t].ret = "ENOMEM" /\ ft[t].out = "none"
    /\ active_fault_handlers > 0

\* C6: when i915_gem_object_release_mmap_gtt returns, none of the PTEs that
\* were populated through the GTT when it was called is still populated,
\* whatever vm_fault_gtt does concurrently on the object.
C6_ReleaseLeavesNoPte == rv.pc = "out" => rv.old = {}

\* C7: a call of i915_gem_object_release_mmap_gtt that finds userfault_count
\* at 0 goes straight to out and changes no vma, no PTE, neither
\* userfault_count nor userfault_list, and trips no GEM_BUG_ON; and
\* userfault_count is never negative.
C7_ReleaseOfUnfaultedStep ==
  (/\ rv' # rv
   /\ \/ rv.pc = "check" /\ userfault_count = 0
      \/ rv.pc = "out" /\ rv.n0 = 0)
  => /\ rv'.pc \in {"out", "idle"}
     /\ UNCHANGED <<vma, ptes, userfault_count, userfault_list, gbug>>

C7_ReleaseIdempotent ==
  /\ [](userfault_count >= 0)
  /\ [][C7_ReleaseOfUnfaultedStep]_vars

\* A release has found userfault_count at 0 on an object that has a vma
\* bound in the GGTT, none of them marked userfault, and has reached out.
C7_Witness ==
  /\ rv.pc = "out" /\ rv.n0 = 0
  /\ \E v \in GViews : vma[v].bound
  /\ \A v \in GViews : ~vma[v].userfault

\* C8: a call of i915_gem_object_release_mmap_gtt that finds
\* userfault_count > 0 has, when it reaches out, revoked every vma of the
\* object (no vma is marked userfault), brought userfault_count to 0 and
\* unlinked the object from ggtt->userfault_list.
C8_ReleaseRevokesAll ==
  (rv.pc = "out" /\ rv.n0 > 0) =>
    /\ \A v \in GViews : ~vma[v].userfault
    /\ userfault_count = 0
    /\ userfault_list = <<>>

\* A release that found userfault_count at 2 has reached out.
C8_Witness == rv.pc = "out" /\ rv.n0 = 2

\* C9: whenever ggtt->vm.mutex is free or held by a thread other than a
\* fault handler, userfault_count > 0 exactly when the object is linked on
\* ggtt->userfault_list, and userfault_count > 0 implies that a bound vma of
\* the object is marked userfault.
C9_UserfaultRegistered ==
  vm_mutex \notin FThreads =>
    /\ userfault_count > 0 <=> userfault_list # <<>>
    /\ Len(userfault_list) <= 1
    /\ userfault_count > 0 =>
         \E v \in GViews : vma[v].bound /\ vma[v].userfault

\* The revoker holds the mutex and finds the object registered by two faults.
C9_Witness ==
  /\ vm_mutex = "rv" /\ rv.pc = "check"
  /\ userfault_count = 2 /\ userfault_list # <<>>

(***************************************************************************)
(* Properties of i915_error_to_vmf_fault.                                  *)
(***************************************************************************)

\* C13: i915_error_to_vmf_fault returns one of three vm_fault_t for every
\* err: VM_FAULT_OOM for -ENOMEM; VM_FAULT_NOPAGE for 0, -EAGAIN, -ENOSPC,
\* -ERESTARTSYS, -EINTR and -EBUSY; VM_FAULT_SIGBUS for -EIO, -EFAULT,
\* -ENODEV, -ENXIO, -E2BIG and for every other err, which also sets off the
\* warning, printed at most once.
C13_Named == {"0", "EAGAIN", "ENOSPC", "ERESTARTSYS", "EINTR", "EBUSY", "EIO",
              "EFAULT", "ENODEV", "ENXIO", "E2BIG", "ENOMEM"}
C13_Unrecognised == \A n \in C13_Named : errno_in # -Errno(n)

C13_ThreeOutcomes ==
  fault_out # "none" =>
    /\ fault_out \in {"VM_FAULT_OOM", "VM_FAULT_NOPAGE", "VM_FAULT_SIGBUS"}
    /\ fault_out = "VM_FAULT_OOM" <=> errno_in = -Errno("ENOMEM")
    /\ fault_out = "VM_FAULT_NOPAGE" <=>
         \E n \in {"0", "EAGAIN", "ENOSPC", "ERESTARTSYS", "EINTR", "EBUSY"} :
           errno_in = -Errno(n)
    /\ fault_out = "VM_FAULT_SIGBUS" <=>
         \/ \E n \in {"EIO", "EFAULT", "ENODEV", "ENXIO", "E2BIG"} :
              errno_in = -Errno(n)
         \/ C13_Unrecognised
    /\ C13_Unrecognised => warned
    /\ warnings <= 1
    /\ warned <=> warnings = 1

\* An err without a case label (-EDEADLK) was translated after the warning
\* had already been printed for an earlier one.
C13_Witness ==
  /\ errno_in = -Errno("EDEADLK")
  /\ fault_out = "VM_FAULT_SIGBUS"
  /\ warned /\ warnings = 1

(***************************************************************************)
(* Properties of the swap policy.                                          *)
(***************************************************************************)

\* use_swapto has created a shadow and serves the fault from it.
SwCreated ==
  /\ swout.pg = "swp" /\ swin.swapto # "WILLNEED"
  /\ swout.swapto = "WILLNEED" /\ swout.size >= swin.size
\* use_swapto serves the fault from the object and has created nothing.
SwKept == swout.pg = "obj" /\ swout.swapto = swin.swapto
\* C26: whenever create_swapto stores a new shadow in obj->swapto, the object
\* had no shadow (GEM_BUG_ON(obj->swapto) does not fire), also when the
\* object's shadow is marked I915_MADV_DONTNEED.
C26_ShadowNeverOverwritten ==
  (swout.pg = "swp" /\ swin.swapto # "WILLNEED") =>
    (swin.swapto = NoShadow /\ ~swout.bug)

\* The swap options are enabled and a shadow can be allocated.
SwEnabled == swin.swap /\ swin.swap_create /\ swin.shmem_ok
\* A write fault on an object in lmem without pages, not purged, that has no
\* shadow with madv WILLNEED.
C12_Case ==
  /\ swout # NoTarget
  /\ swin.write /\ swin.lmem /\ ~swin.has_pages /\ ~swin.purged
  /\ swin.swapto # "WILLNEED"

\* C12 as stated (with the swap options enabled and the allocation of a
\* shadow succeeding): on such a write fault no shadow is created when
\* 2 * size exceeds the free budget of the region, and one is created and
\* becomes the target when 2 * size does not exceed it.
C12_ShadowWhenBudgetSuffices ==
  (C12_Case /\ SwEnabled) =>
    IF 2 * swin.size > swin.avail THEN SwKept ELSE SwCreated

\* C12 as amended: on such a write fault no shadow is created and the object
\* is the target when 2 * size is below the free budget; when 2 * size
\* reaches or exceeds it a shadow is created and becomes the target, provided
\* the swap options are enabled and the allocation succeeds, and the object
\* is the target otherwise.
C12_ShadowWhenBudgetShort ==
  C12_Case =>
    IF 2 * swin.size < swin.avail THEN SwKept
    ELSE IF SwEnabled THEN SwCreated
    ELSE SwKept

\* A write fault with 2 * size above the budget was given a new shadow, and
\* the object had none.
C12_Witness ==
  /\ C12_Case /\ SwEnabled
  /\ 2 * swin.size > swin.avail
  /\ swin.swapto = NoShadow
  /\ SwCreated

\* use_swapto serves the fault from the shadow there was and has created
\* nothing.
SwUsed ==
  /\ swout.pg = "swp" /\ swin.swapto = "WILLNEED"
  /\ swout.swapto = swin.swapto /\ swout.size = 0
\* The object is in lmem, has no pages and is not purged.
SwCandidate == swin.lmem /\ ~swin.has_pages /\ ~swin.purged

\* C20 as the claim has it (with the swap options enabled and the allocation
\* of a shadow succeeding, and a read fault taken as the other policy that
\* forces the offload): the target is the shadow with madv WILLNEED if there
\* is one; otherwise a new shadow exactly when the object is in lmem, has no
\* pages, is not purged, and the fault is a read or a write with the free
\* budget of the region less than 2 * size; otherwise the object.
C20_TargetAsStated ==
  (swout # NoTarget /\ SwEnabled) =>
    IF swin.swapto = "WILLNEED" THEN SwUsed
    ELSE IF SwCandidate /\ (~swin.write \/ swin.avail < 2 * swin.size)
         THEN SwCreated
    ELSE SwKept

\* C20, amended: without CHICKEN_MMAP_SWAP the target is the object.  With
\* it, the target is the shadow with madv WILLNEED if there is one, for reads
\* and writes alike and with nothing created; otherwise it is a new shadow
\* exactly when CHICKEN_MMAP_SWAP_CREATE is enabled, the object is in lmem,
\* has no pages, is not purged, the fault is a read or a write with
\* 2 * size not below the free budget of the region, and the shadow can be
\* allocated; otherwise it is the object.
C20_TargetChoice ==
  swout # NoTarget =>
    IF ~swin.swap THEN SwKept
    ELSE IF swin.swapto = "WILLNEED" THEN SwUsed
    ELSE IF /\ swin.swap_create /\ swin.shmem_ok /\ SwCandidate
            /\ (~swin.write \/ 2 * swin.size >= swin.avail)
         THEN SwCreated
    ELSE SwKept

\* A read fault was given a new shadow although the free budget of the
\* region is more than 2 * size.
C20_Witness ==
  /\ swout # NoTarget /\ SwEnabled /\ SwCandidate
  /\ ~swin.write /\ swin.swapto = NoShadow
  /\ 2 * swin.size < swin.avail
  /\ SwCreated

(***************************************************************************)
(* Properties of compute_partial_view.                                     *)
(***************************************************************************)

\* C10: the view computed for a page of the object contains that page, its
\* offset is a multiple of the tile row of a tiled object (when the row is at
\* least a page), and the view ends inside the object.
C10_PartialViewCoversFault ==
  pvout # NoView =>
    /\ pvout.offset <= pvin.page_offset
    /\ pvin.page_offset < pvout.offset + pvout.size
    /\ (pvin.tiled /\ pvin.row > 0) => pvout.offset % pvin.row = 0
    /\ pvout.offset + pvout.size <= pvin.pages

\* A tiled object whose row does not divide the chunk, faulting beyond the
\* first chunk, with the last view cut short by the end of the object.
C10_Witness ==
  /\ pvout # NoView
  /\ pvin.tiled /\ pvin.row = 3 /\ pvin.chunk = 2
  /\ pvout.offset > 0
  /\ pvout.size < partial_chunk(pvin.tiled, pvin.row, pvin.chunk)

\* The row a tiled object's chunk is rounded to, and the chunk the claim
\* describes: the least multiple of that row that is not below the window.
C11_Row == IF pvin.tiled /\ pvin.row > 0 THEN pvin.row ELSE 1
C11_Chunk ==
  CHOOSE k \in pvin.chunk..(pvin.chunk + C11_Row) :
    /\ k % C11_Row = 0
    /\ \A j \in pvin.chunk..(k - 1) : j % C11_Row # 0

\* C11: the view's offset is the greatest multiple of the chunk that is not
\* above the faulting page, the chunk being the window rounded up to a
\* multiple of the tile row of a tiled object, and its size is
\* min(chunk, pages - offset); for 4096 pages, a row of 64, a window of 256
\* and page 300 the view has offset 256 and size 256.
C11_PartialViewGeometry ==
  pvout # NoView =>
    /\ pvout.offset % C11_Chunk = 0
    /\ pvout.offset <= pvin.page_offset
    /\ pvin.page_offset < pvout.offset + C11_Chunk
    /\ pvout.size = (IF C11_Chunk < pvin.pages - pvout.offset
                     THEN C11_Chunk ELSE pvin.pages - pvout.offset)
    /\ pvin = PvScenario =>
         /\ pvout.offset = 256
         /\ pvout.size = 256
         /\ pvout.type = "PARTIAL"

\* The view of the scenario has been computed.
C11_Witness == pvin = PvScenario /\ pvout # NoView

====
